---- MODULE Spec2Model ----
(***************************************************************************)
(* Translation-execution pipeline of ymylive/translator:                   *)
(*   - APIManager / TokenPool / APIStats  (src/translators/api_manager.py) *)
(*   - TranslatorBase caches              (src/translators/base.py)        *)
(*   - Translator.run and its cache       (src/translator_core.py)         *)
(*   - safe_save_json / safe_load_json    (src/config_utils.py)            *)
(*   - GlossaryManager, PostProcessor     (src/glossary.py,                *)
(*                                         src/post_processor.py)          *)
(*                                                                         *)
(* The specifications share the variables and the actions:                 *)
(*   SpecApi       callers issue APIManager.translate_with_fallback calls; *)
(*   SpecRun       one Translator.run, with stop requests;                 *)
(*   Spec          Translator.run, the process killed and started again;   *)
(*   SpecFault     Translator.run with a failing engine and failing saves; *)
(*   SpecProgress  Translator.run on a cache file with a stale string;     *)
(*   SpecLive      Translator.run under fair scheduling;                   *)
(*   SpecPool, SpecBatch, SpecMask, SpecGlossary, SpecPost, SpecFallback,  *)
(*   SpecEndpoint, SpecIndex                                               *)
(*                 one component each, on inputs drawn from bounded sets.  *)
(***************************************************************************)
EXTENDS Integers, Sequences, FiniteSets, TLC

VARIABLES
    now,                \* time.time(), in seconds since the process started
    apis,               \* APIManager.apis: the registered backends
    behaviour,          \* how each backend answers its requests (environment)
    poison,             \* the units a "poison" backend cannot translate
    config,             \* Translator.__init__ arguments: batch_size, max_chars, workers
    stats,              \* APIManager.stats: api -> APIStats
    token_pools,        \* APIManager.token_pools: api -> TokenPool
    last_request_time,  \* APIManager.last_request_time
    call,               \* per thread: the translate_with_fallback call in progress
    calls,              \* translate_with_fallback calls begun by the callers of SpecApi
    sent,               \* units passed to a backend since the process started
    target,             \* the cache file of the project
    tmpfile,            \* the cache file's ".tmp" sibling
    pc,                 \* Translator.run: position of the main thread
    cache,              \* Translator.run: the dictionary `cache`
    pending,            \* Translator.run: `pending`
    batches,            \* Translator.run: `batches`
    cur,                \* Translator.run: index of the batch the for loop is at
    result,             \* Translator.run: `result`, the part not merged yet
    futures,            \* Translator.run: `futures`, one per batch
    job,                \* per thread: the process_batch call in progress
    stop,               \* stop_event.is_set()
    done,               \* Translator.run: `done`
    hist,               \* what the run has done so far (history)
    glossary,           \* GlossaryManager.entries
    _source_index,      \* GlossaryManager._source_index
    rules,              \* PostProcessor.rules
    unit,               \* a text on its way through the text functions
    _memory_cache,      \* TranslatorBase._memory_cache, the class attribute
    _long_cache_db,     \* per endpoint instance: the SQLite file it is connected to
    sqlite,             \* the SQLite cache files: file -> rows of the table `cache`
    probe               \* the last cache operation made through an endpoint

envVars == <<apis, behaviour, poison, config>>
mgrVars == <<stats, token_pools, last_request_time>>
diskVars == <<target, tmpfile>>
textVars == <<glossary, _source_index, rules, unit>>
endpointVars == <<_memory_cache, _long_cache_db, sqlite, probe>>
runVars == <<pc, cache, pending, batches, cur, result, futures, job, stop, done, hist>>

vars == <<now, envVars, mgrVars, call, calls, sent, diskVars, runVars, textVars, endpointVars>>

(***************************************************************************)
(* Bounds of the model.                                                    *)
(***************************************************************************)
NumUnits == 4       \* extracted strings are the units 1..NumUnits
MaxCalls == 6       \* translate_with_fallback calls a SpecApi caller may begin
MaxTokens == 2      \* tokens of the primary backend's pool
MaxElapsed == 306   \* seconds of process life time that are explored
MaxRuns == 2        \* times the process is started
MaxLen == 4         \* characters of a text given to the text functions
MaxOps == 5         \* cache operations made through the endpoint wrappers

(***************************************************************************)
(* Program constants.                                                      *)
(***************************************************************************)
max_consecutive_failures == 5
failure_cooldown == 300
default_rate_limit == 1
cooldown_seconds == 60

Units == 1..NumUnits
Strings == [k \in 1..NumUnits |-> k]       \* extract_strings: ordered, unique

Chain == <<"A", "B">>                      \* fallback_chain: primary, then fallback
Backends == {Chain[k] : k \in 1..Len(Chain)}
Workers == {1, 2, 3}                       \* threads an executor may start; 0 is the main thread
Threads == {0} \cup Workers
Callers == {1}                             \* threads that call the API manager in SpecApi

min_interval == 1 \div default_rate_limit  \* _wait_for_rate_limit, line 366

\* time.time() at process start lies beyond every cooldown measured from 0.0
ClockStart == failure_cooldown + cooldown_seconds
TickSteps == {min_interval, failure_cooldown}

NoToken == 0
NoError == "None"
NoTranslators == "RuntimeError: No translators available"
ErrorOf(api) == "error raised by " \o api

(***************************************************************************)
(* APIStats                                                                *)
(***************************************************************************)
NewStats ==
    [total_requests |-> 0, successful_requests |-> 0, failed_requests |-> 0,
     last_error |-> NoError, last_error_time |-> 0, consecutive_failures |-> 0]

\* mutant: a success leaves the count of consecutive failures as it is
RecordSuccessKeepingStreak(s) ==
    [s EXCEPT !.total_requests = @ + 1,
              !.successful_requests = @ + 1]

\* APIStats.record_success, lines 40-44
record_success(s) ==
    [s EXCEPT !.total_requests = @ + 1,
              !.successful_requests = @ + 1,
              !.consecutive_failures = 0]

record_failure(s, error, t) ==
    [s EXCEPT !.total_requests = @ + 1,
              !.failed_requests = @ + 1,
              !.last_error = error,
              !.last_error_time = t,
              !.consecutive_failures = @ + 1]

(***************************************************************************)
(* TokenPool.  Tokens are 1..n, token k at index k-1; the dictionaries     *)
(* read with .get(key, 0) are total functions that start at 0.             *)
(***************************************************************************)
NewPool(n) ==
    [tokens |-> [k \in 1..n |-> k],
     current_index |-> 0,
     error_counts |-> [k \in 1..n |-> 0],
     cooldown_until |-> [k \in 1..n |-> 0],
     skip_rounds |-> [i \in 0..(n - 1) |-> 0]]

\* mutant: the first token of the list, whatever its cooldown
FirstToken(pool) == pool.tokens[1]

\* min(self.tokens, key=cooldown_until.get): the first token of least cooldown
MinCooldownToken(pool) ==
    LET least(k) == \A j \in 1..Len(pool.tokens) :
                        pool.cooldown_until[pool.tokens[k]] <= pool.cooldown_until[pool.tokens[j]]
        first == CHOOSE k \in 1..Len(pool.tokens) :
                    least(k) /\ \A j \in 1..(k - 1) : ~least(j)
    IN pool.tokens[first]

RECURSIVE GetNextLoop(_, _, _)
GetNextLoop(pool, attempts, t) ==
    IF attempts >= 2 * Len(pool.tokens)
    THEN LET available == SelectSeq(pool.tokens, LAMBDA k : pool.cooldown_until[k] <= t)
         IN [pool |-> pool,
             token |-> IF available # <<>> THEN available[1] ELSE MinCooldownToken(pool)]
    ELSE LET idx == (pool.current_index + 1) % Len(pool.tokens)
             p1 == [pool EXCEPT !.current_index = idx]
             token == pool.tokens[idx + 1]
         IN IF p1.skip_rounds[idx] > 0
            THEN GetNextLoop([p1 EXCEPT !.skip_rounds[idx] = @ - 1], attempts + 1, t)
            ELSE IF p1.cooldown_until[token] > t
                 THEN GetNextLoop(p1, attempts + 1, t)
                 ELSE [pool |-> p1, token |-> token]

\* mutant: plain rotation, cooldowns and skip rounds are not looked at
GetNextRoundRobin(pool, t) ==
    IF pool.tokens = <<>> THEN [pool |-> pool, token |-> NoToken]
    ELSE LET idx == (pool.current_index + 1) % Len(pool.tokens)
         IN [pool |-> [pool EXCEPT !.current_index = idx], token |-> pool.tokens[idx + 1]]

get_next_token(pool, t) ==
    IF pool.tokens = <<>> THEN [pool |-> pool, token |-> NoToken]
    ELSE GetNextLoop(pool, 0, t)

record_error(pool, token, t) ==
    LET idx == token - 1
        p1 == [pool EXCEPT !.error_counts[token] = @ + 1,
                           !.cooldown_until[token] = t + cooldown_seconds]
    IN [p1 EXCEPT !.skip_rounds[idx] = @ + p1.error_counts[token]]

\* mutant: a success clears the token's error count and skip rounds
RecordSuccessReset(pool, token) ==
    [pool EXCEPT !.error_counts[token] = 0, !.skip_rounds[token - 1] = 0]

\* TokenPool.record_success, lines 116-122
TokenPool_record_success(pool, token) ==
    LET idx == token - 1
        floor(x) == IF x > 0 THEN x - 1 ELSE 0
    IN [pool EXCEPT !.error_counts[token] = floor(@), !.skip_rounds[idx] = floor(@)]

\* Translator.__init__: every backend is constructed with the first token of
\* its list, and keeps it for the life of the process
api_key(api) == token_pools[api].tokens[1]

(***************************************************************************)
(* Backends.  A backend answers a request by returning one translation per *)
(* text ("ok"), by raising ("raise"), or by returning a list that is one   *)
(* element short ("short").                                                *)
(***************************************************************************)
\* api's translation of the masked text of unit u, and the source text of u
Tr(api, u) == [from |-> api, unit |-> u, post |-> FALSE]
Src(u) == [from |-> "source", unit |-> u, post |-> FALSE]

HasPoison(texts) == \E k \in 1..Len(texts) : texts[k] \in poison

Outcomes(api, texts) ==
    CASE behaviour[api] = "ok" -> {"ok"}
      [] behaviour[api] = "fail" -> {"raise"}
      [] behaviour[api] = "poison" -> IF HasPoison(texts) THEN {"raise"} ELSE {"ok"}
      [] OTHER -> {"ok", "raise", "short"}

Answer(api, texts, outcome) ==
    IF outcome = "ok" THEN [k \in 1..Len(texts) |-> Tr(api, texts[k])]
    ELSE [k \in 1..(Len(texts) - 1) |-> Tr(api, texts[k])]

(***************************************************************************)
(* APIManager.translate_with_fallback, one step per shared-state access.   *)
(***************************************************************************)
NoCall ==
    [phase |-> "none", texts |-> <<>>, avail |-> <<>>, i |-> 0,
     last_error |-> NoError, last_time |-> 0, result |-> <<>>, raised |-> NoError,
     trace |-> <<>>, marked |-> <<>>]

\* mutant: the chain is walked from its end
AvailableReversed ==
    LET av == SelectSeq(Chain, LAMBDA a : a \in apis)
    IN [k \in 1..Len(av) |-> av[Len(av) + 1 - k]]

_get_available_apis == SelectSeq(Chain, LAMBDA a : a \in apis)

\* mutant: suspended only once the threshold is exceeded
SuspendedLate(s, t) ==
    /\ s.consecutive_failures > max_consecutive_failures
    /\ t - s.last_error_time < failure_cooldown

\* lines 235-236: the backend is suspended
Suspended(s, t) ==
    /\ s.consecutive_failures >= max_consecutive_failures
    /\ t - s.last_error_time < failure_cooldown

Event(api, ev) == [api |-> api, ev |-> ev]

\* translate_with_fallback is entered: lines 226-229
BeginCall(t, texts) ==
    [NoCall EXCEPT !.phase = "loop", !.texts = texts,
                   !.avail = _get_available_apis, !.i = 1]

\* the for loop is exhausted: lines 276-278
ApiExhausted(t) ==
    /\ call[t].phase = "loop"
    /\ call[t].i > Len(call[t].avail)
    /\ call' = [call EXCEPT ![t].phase = "raised",
                            ![t].raised = IF call[t].last_error # NoError
                                          THEN call[t].last_error ELSE NoTranslators]
    /\ UNCHANGED <<now, envVars, endpointVars, textVars, mgrVars, calls, sent, diskVars, runVars>>

\* top of the loop body: lines 229-242
ApiCheck(t) ==
    /\ call[t].phase = "loop"
    /\ call[t].i <= Len(call[t].avail)
    /\ LET api == call[t].avail[call[t].i]
       IN IF Suspended(stats[api], now)
          THEN call' = [call EXCEPT ![t].i = @ + 1,
                                    ![t].trace = Append(@, Event(api, "skip"))]
          ELSE call' = [call EXCEPT ![t].phase = "rate"]
    /\ UNCHANGED <<now, envVars, endpointVars, textVars, mgrVars, calls, sent, diskVars, runVars>>

\* _wait_for_rate_limit, first locked section: lines 362-364
ApiRateRead(t) ==
    /\ call[t].phase = "rate"
    /\ LET api == call[t].avail[call[t].i]
       IN call' = [call EXCEPT ![t].phase = "wait", ![t].last_time = last_request_time[api]]
    /\ UNCHANGED <<now, envVars, endpointVars, textVars, mgrVars, calls, sent, diskVars, runVars>>

\* _wait_for_rate_limit, sleep and second locked section, then the backend
\* is invoked: lines 366-373 and 249-251
ApiInvoke(t) ==
    /\ call[t].phase = "wait"
    /\ now - call[t].last_time >= min_interval
    /\ LET api == call[t].avail[call[t].i]
       IN /\ last_request_time' = [last_request_time EXCEPT ![api] = now]
          /\ call' = [call EXCEPT ![t].phase = "in_flight",
                                  ![t].trace = Append(@, Event(api, "invoke"))]
          /\ sent' = sent \cup {call[t].texts[k] : k \in 1..Len(call[t].texts)}
    /\ UNCHANGED <<now, envVars, endpointVars, textVars, stats, token_pools, calls, diskVars, runVars>>

\* mutant: the first failure is raised to the caller
OnFailureRaise(t, api) ==
    LET got == get_next_token(token_pools[api], now)
    IN /\ stats' = [stats EXCEPT ![api] = record_failure(@, ErrorOf(api), now)]
       /\ token_pools' = [token_pools EXCEPT ![api] =
                             IF got.token # NoToken
                             THEN record_error(got.pool, got.token, now)
                             ELSE got.pool]
       /\ call' = [call EXCEPT ![t].phase = "raised",
                               ![t].raised = ErrorOf(api),
                               ![t].last_error = ErrorOf(api),
                               ![t].trace = Append(@, Event(api, "raise")),
                               ![t].marked = Append(@, [api |-> api, token |-> got.token])]

\* mutant: only the first exception of the call is kept
OnFailureKeepFirst(t, api) ==
    LET got == get_next_token(token_pools[api], now)
    IN /\ stats' = [stats EXCEPT ![api] = record_failure(@, ErrorOf(api), now)]
       /\ token_pools' = [token_pools EXCEPT ![api] =
                             IF got.token # NoToken
                             THEN record_error(got.pool, got.token, now)
                             ELSE got.pool]
       /\ call' = [call EXCEPT ![t].phase = "loop",
                               ![t].i = @ + 1,
                               ![t].last_error = IF @ = NoError THEN ErrorOf(api) ELSE @,
                               ![t].trace = Append(@, Event(api, "raise")),
                               ![t].marked = Append(@, [api |-> api, token |-> got.token])]

\* the except branch: lines 260-274
OnFailure(t, api) ==
    LET got == get_next_token(token_pools[api], now)
    IN /\ stats' = [stats EXCEPT ![api] = record_failure(@, ErrorOf(api), now)]
       /\ token_pools' = [token_pools EXCEPT ![api] =
                             IF got.token # NoToken
                             THEN record_error(got.pool, got.token, now)
                             ELSE got.pool]
       /\ call' = [call EXCEPT ![t].phase = "loop",
                               ![t].i = @ + 1,
                               ![t].last_error = ErrorOf(api),
                               ![t].trace = Append(@, Event(api, "raise")),
                               ![t].marked = Append(@, [api |-> api, token |-> got.token])]

\* the backend returned: lines 252-258
OnSuccess(t, api, outcome) ==
    /\ stats' = [stats EXCEPT ![api] = record_success(@)]
    /\ call' = [call EXCEPT ![t].phase = "returned",
                            ![t].result = Answer(api, call[t].texts, outcome),
                            ![t].trace = Append(@, Event(api, "ok"))]
    /\ UNCHANGED token_pools

\* translator.translate returns or raises
ApiReturn(t) ==
    /\ call[t].phase = "in_flight"
    /\ LET api == call[t].avail[call[t].i]
       IN \E outcome \in Outcomes(api, call[t].texts) :
             IF outcome = "raise" THEN OnFailure(t, api) ELSE OnSuccess(t, api, outcome)
    /\ UNCHANGED <<now, envVars, endpointVars, textVars, last_request_time, calls, sent, diskVars, runVars>>

ApiStep(t) == ApiExhausted(t) \/ ApiCheck(t) \/ ApiRateRead(t) \/ ApiInvoke(t) \/ ApiReturn(t)

\* a thread sleeps in _wait_for_rate_limit (line 370)
RateWaiting ==
    \E t \in Threads : call[t].phase = "wait" /\ now - call[t].last_time < min_interval

\* Time passes.  The clock is read by the rate-limit wait and by the suspension
\* test only, so it advances by the minimum interval while a thread sleeps on
\* the rate limit, and by a whole failure cooldown while a backend is suspended.
Tick ==
    /\ \E d \in TickSteps :
          /\ d = min_interval => RateWaiting
          /\ d = failure_cooldown => \E a \in Backends : Suspended(stats[a], now)
          /\ now + d <= ClockStart + MaxElapsed
          /\ now' = now + d
    /\ UNCHANGED <<envVars, endpointVars, textVars, mgrVars, call, calls, sent, diskVars, runVars>>

(***************************************************************************)
(* The persisted cache: a JSON document, written and read chunk by chunk.  *)
(***************************************************************************)
NoFile == [exists |-> FALSE, data |-> <<>>]
Open == [tag |-> "{", key |-> 0, value |-> <<>>]
Close == [tag |-> "}", key |-> 0, value |-> <<>>]
Entry(k, v) == [tag |-> "entry", key |-> k, value |-> <<v>>]

EmptyDict == [u \in {} |-> 0]
\* mutant: the dictionary is rebuilt from the new entry alone
PutOnly(m, k, v) == [x \in {k} |-> v]

\* cache[orig] = translated, lines 289 and 307
Put(m, k, v) == [x \in (DOMAIN m) \cup {k} |-> IF x = k THEN v ELSE m[x]]

RECURSIVE Sorted(_)
Sorted(S) ==
    IF S = {} THEN <<>>
    ELSE LET least == CHOOSE x \in S : \A y \in S : x <= y
         IN <<least>> \o Sorted(S \ {least})

\* json.dump(data, f): the text of the document, as the chunks written in order
Dump(m) ==
    LET keys == Sorted(DOMAIN m)
    IN <<Open>> \o [i \in 1..Len(keys) |-> Entry(keys[i], m[keys[i]])] \o <<Close>>

\* json.load accepts the text
Parsable(data) ==
    /\ Len(data) >= 2
    /\ data[1] = Open
    /\ data[Len(data)] = Close
    /\ \A i \in 2..(Len(data) - 1) : data[i].tag = "entry"

\* json.load(f)
Parse(data) ==
    LET keys == {data[i].key : i \in 2..(Len(data) - 1)}
    IN [u \in keys |-> (CHOOSE i \in 2..(Len(data) - 1) : data[i].key = u) ]

Loaded(data) == [u \in DOMAIN Parse(data) |-> data[Parse(data)[u]].value[1]]

\* safe_load_json(path, {}): the dictionary returned
safe_load_json(file) ==
    IF ~file.exists THEN EmptyDict
    ELSE IF Parsable(file.data) THEN Loaded(file.data)
    ELSE EmptyDict

\* safe_load_json: the file it leaves (a corrupted file is renamed to .bad-*)
AfterLoad(file) ==
    IF file.exists /\ ~Parsable(file.data) THEN NoFile ELSE file

(***************************************************************************)
(* TranslatorBase (src/translators/base.py): the memory cache and the      *)
(* SQLite long-term cache of the endpoint wrappers.  Dictionaries are      *)
(* functions on their key sets; a missing key reads as None.               *)
(***************************************************************************)
None == "None"
Get(m, k) == IF k \in DOMAIN m THEN m[k] ELSE None

\* three endpoint instances, the first two of the same wrapper class
Endpoints == {"e1", "e2", "e3"}
get_name(e) == IF e = "e3" THEN "Claude" ELSE "OpenAI"
SourceLangs == {"auto"}
TargetLangs == {"zh", "ja"}
SourceTexts == {"hi"}
Translations == {"x", "y"}

NoProbe == [op |-> "none", endpoint |-> None, text |-> None, src |-> None, tgt |-> None,
            value |-> None, long_read |-> FALSE]

\* lines 164-166
_get_cache_key(e, src, tgt) == get_name(e) \o ":" \o src \o ":" \o tgt

\* `if cache_key not in self._memory_cache: self._memory_cache[cache_key] = {}`
WithKey(memory, key) == IF key \in DOMAIN memory THEN memory ELSE Put(memory, key, EmptyDict)

\* lines 168-173: the value returned and the dictionary left
_get_from_cache(memory, key, text) ==
    [value |-> Get(WithKey(memory, key)[key], text), memory |-> WithKey(memory, key)]

\* lines 175-180
_set_cache(memory, key, text, translation) ==
    Put(WithKey(memory, key), key, Put(WithKey(memory, key)[key], text, translation))

\* init_long_cache: cache_dir / f"{name.lower()}_cache.sqlite", lines 190-191
DbPath(e) == (IF get_name(e) = "Claude" THEN "claude" ELSE "openai") \o "_cache.sqlite"

\* lines 210-222
get_from_long_cache(e, text, src, tgt) ==
    IF _long_cache_db[e] = None THEN None
    ELSE Get(sqlite[_long_cache_db[e]], <<src, tgt, text>>)

\* lines 224-236: the files after INSERT OR REPLACE and commit
set_to_long_cache(e, text, translation, src, tgt) ==
    IF _long_cache_db[e] = None THEN sqlite
    ELSE [sqlite EXCEPT ![_long_cache_db[e]] = Put(@, <<src, tgt, text>>, translation)]

\* mutant: a hit in the SQLite cache is returned without being written to memory
GetCachedDualNoBackfill(e, text, src, tgt) ==
    LET cache_key == _get_cache_key(e, src, tgt)
        cached == IF cache_key \in DOMAIN _memory_cache
                  THEN Get(_memory_cache[cache_key], text) ELSE None
        long_cached == get_from_long_cache(e, text, src, tgt)
    IN IF cached # None
       THEN [value |-> cached, long_read |-> FALSE, memory |-> _memory_cache]
       ELSE [value |-> long_cached, long_read |-> TRUE, memory |-> _memory_cache]

\* lines 238-256: the value returned, whether the SQLite cache was read, and
\* the memory cache left
get_cached_dual(e, text, src, tgt) ==
    LET cache_key == _get_cache_key(e, src, tgt)
        cached == IF cache_key \in DOMAIN _memory_cache
                  THEN Get(_memory_cache[cache_key], text) ELSE None
        long_cached == get_from_long_cache(e, text, src, tgt)
    IN IF cached # None
       THEN [value |-> cached, long_read |-> FALSE, memory |-> _memory_cache]
       ELSE IF long_cached # None
       THEN [value |-> long_cached, long_read |-> TRUE,
             memory |-> _set_cache(_memory_cache, cache_key, text, long_cached)]
       ELSE [value |-> None, long_read |-> TRUE, memory |-> _memory_cache]

(***************************************************************************)
(* Translator._build_batches                                               *)
(***************************************************************************)
MaskedLen(s) == s          \* len(mask_text(s)[0]): unit k masks to k characters

RECURSIVE BuildFrom(_, _, _, _, _)
\* mutant: the string that closes a batch is not carried into the next one
BuildFromLosing(strings, k, built, batch, total_chars) ==
    IF k > Len(strings)
    THEN IF batch # <<>> THEN Append(built, batch) ELSE built
    ELSE LET s == strings[k]
             candidate_len == MaskedLen(s)
         IN IF /\ batch # <<>>
               /\ \/ Len(batch) >= config.batch_size
                  \/ total_chars + candidate_len > config.max_chars
            THEN BuildFrom(strings, k + 1, Append(built, batch), <<>>, 0)
            ELSE BuildFrom(strings, k + 1, built, Append(batch, s), total_chars + candidate_len)

\* mutant: a batch is closed only once it holds more than batch_size strings
BuildFromOverfull(strings, k, built, batch, total_chars) ==
    IF k > Len(strings)
    THEN IF batch # <<>> THEN Append(built, batch) ELSE built
    ELSE LET s == strings[k]
             candidate_len == MaskedLen(s)
         IN IF /\ batch # <<>>
               /\ \/ Len(batch) > config.batch_size
                  \/ total_chars + candidate_len > config.max_chars
            THEN BuildFrom(strings, k + 1, Append(built, batch), <<s>>, candidate_len)
            ELSE BuildFrom(strings, k + 1, built, Append(batch, s), total_chars + candidate_len)

BuildFrom(strings, k, built, batch, total_chars) ==
    IF k > Len(strings)
    THEN IF batch # <<>> THEN Append(built, batch) ELSE built
    ELSE LET s == strings[k]
             candidate_len == MaskedLen(s)
         IN IF /\ batch # <<>>
               /\ \/ Len(batch) >= config.batch_size
                  \/ total_chars + candidate_len > config.max_chars
            THEN BuildFrom(strings, k + 1, Append(built, batch), <<s>>, candidate_len)
            ELSE BuildFrom(strings, k + 1, built, Append(batch, s), total_chars + candidate_len)

_build_batches(strings) == BuildFrom(strings, 1, <<>>, <<>>, 0)

(***************************************************************************)
(* Translator.run: process_batch and its translate_with_fallback wrapper.  *)
(* The wrapper's recursion is the stack of sub-batches still to translate, *)
(* left half first.                                                        *)
(***************************************************************************)
\* calls: the calls this process_batch has made to the API manager (history)
NoJob == [phase |-> "idle", batch |-> 0, stack |-> <<>>, out |-> <<>>, result |-> <<>>,
          calls |-> 0]

\* glossary post-processing, post-processor, unmask_text and strip, lines 269-279
Post(v) == [v EXCEPT !.post = TRUE]

\* mutant: process_batch does not look at the stop signal
JobStartUnchecked(t) ==
    /\ job[t].phase = "start"
    /\ job' = [job EXCEPT ![t].phase = "translate",
                          ![t].stack = <<batches[job[t].batch]>>]
    /\ UNCHANGED <<now, envVars, endpointVars, textVars, mgrVars, call, calls, sent, diskVars,
                   pc, cache, pending, batches, cur, result, futures, stop, done, hist>>

\* process_batch is entered, lines 252-253
JobStart(t) ==
    /\ job[t].phase = "start"
    /\ job' = [job EXCEPT ![t] =
                 IF stop THEN [@ EXCEPT !.phase = "finished", !.result = <<>>]
                 ELSE [@ EXCEPT !.phase = "translate",
                                !.stack = <<batches[job[t].batch]>>]]
    /\ UNCHANGED <<now, envVars, endpointVars, textVars, mgrVars, call, calls, sent, diskVars,
                   pc, cache, pending, batches, cur, result, futures, stop, done, hist>>

\* the wrapper calls the API manager, line 235
JobCall(t) ==
    /\ job[t].phase = "translate"
    /\ job[t].stack # <<>>
    /\ call[t].phase = "none"
    /\ call' = [call EXCEPT ![t] = BeginCall(t, Head(job[t].stack))]
    /\ job' = [job EXCEPT ![t].calls = @ + 1]
    /\ UNCHANGED <<now, envVars, endpointVars, textVars, mgrVars, calls, sent, diskVars,
                   pc, cache, pending, batches, cur, result, futures, stop, done, hist>>

\* mutant: a unit that fails alone gets no result
BisectDrop(j) ==
    LET b == Head(j.stack)
        mid == Len(b) \div 2
    IN IF Len(b) <= 1
       THEN [j EXCEPT !.stack = Tail(@)]
       ELSE [j EXCEPT !.stack = <<SubSeq(b, 1, mid), SubSeq(b, mid + 1, Len(b))>> \o Tail(@)]

\* mutant: the right half starts at the last unit of the left half
BisectOverlapping(j) ==
    LET b == Head(j.stack)
        mid == Len(b) \div 2
    IN IF Len(b) <= 1
       THEN [j EXCEPT !.out = Append(@, Src(b[1])), !.stack = Tail(@)]
       ELSE [j EXCEPT !.stack = <<SubSeq(b, 1, mid), SubSeq(b, mid, Len(b))>> \o Tail(@)]

\* the except branch of the wrapper, lines 239-247
Bisect(j) ==
    LET b == Head(j.stack)
        mid == Len(b) \div 2
    IN IF Len(b) <= 1
       THEN [j EXCEPT !.out = Append(@, Src(b[1])), !.stack = Tail(@)]
       ELSE [j EXCEPT !.stack = <<SubSeq(b, 1, mid), SubSeq(b, mid + 1, Len(b))>> \o Tail(@)]

\* mutant: the answer is taken whatever its length
ReturnedUnchecked(j, translations) ==
    [j EXCEPT !.out = @ \o translations, !.stack = Tail(@)]

\* the API manager returned, lines 236-238
Returned(j, translations) ==
    IF Len(translations) # Len(Head(j.stack))
    THEN Bisect(j)
    ELSE [j EXCEPT !.out = @ \o translations, !.stack = Tail(@)]

JobCallEnd(t) ==
    /\ job[t].phase = "translate"
    /\ call[t].phase \in {"returned", "raised"}
    /\ job' = [job EXCEPT ![t] = IF call[t].phase = "returned"
                                 THEN Returned(@, call[t].result)
                                 ELSE Bisect(@)]
    /\ call' = [call EXCEPT ![t] = NoCall]
    /\ UNCHANGED <<now, envVars, endpointVars, textVars, mgrVars, calls, sent, diskVars,
                   pc, cache, pending, batches, cur, result, futures, stop, done, hist>>

Min(a, b) == IF a < b THEN a ELSE b

\* zip(meta, translations), lines 268-280
Zip(meta, translations) ==
    [i \in 1..Min(Len(meta), Len(translations)) |-> <<meta[i], Post(translations[i])>>]

\* the wrapper has returned to process_batch, lines 267-280
JobFinish(t) ==
    /\ job[t].phase = "translate"
    /\ job[t].stack = <<>>
    /\ job' = [job EXCEPT ![t].phase = "finished",
                          ![t].result = Zip(batches[job[t].batch], job[t].out)]
    /\ hist' = IF stop
               THEN [hist EXCEPT !.late = @ \cup {batches[job[t].batch][k] :
                                                    k \in 1..Len(batches[job[t].batch])}]
               ELSE hist
    /\ UNCHANGED <<now, envVars, endpointVars, textVars, mgrVars, call, calls, sent, diskVars,
                   pc, cache, pending, batches, cur, result, futures, stop, done>>

(***************************************************************************)
(* safe_save_json(cache_path, cache): lines 34-47 of config_utils.py       *)
(***************************************************************************)
\* tmp_path.open("w")
SaveOpen ==
    /\ pc = "save_open"
    /\ tmpfile' = [exists |-> TRUE, data |-> <<>>]
    /\ pc' = "save_write"
    /\ UNCHANGED <<now, envVars, endpointVars, textVars, mgrVars, call, calls, sent, target,
                   cache, pending, batches, cur, result, futures, job, stop, done, hist>>

\* mutant: the file is replaced before the last chunk reached it
WrittenOutEarly(written, text) == Len(written) + 1 >= Len(text)

\* json.dump has returned and the with block closes the file, lines 42-43
WrittenOut(written, text) == Len(written) >= Len(text)

\* json.dump writes the next chunk; after the last one the file is closed
SaveWrite ==
    /\ pc = "save_write"
    /\ LET text == Dump(cache)
           n == Len(tmpfile.data)
       IN IF ~WrittenOut(tmpfile.data, text)
          THEN /\ tmpfile' = [tmpfile EXCEPT !.data = Append(@, text[n + 1])]
               /\ pc' = pc
          ELSE /\ tmpfile' = tmpfile
               /\ pc' = "save_replace"
    /\ UNCHANGED <<now, envVars, endpointVars, textVars, mgrVars, call, calls, sent, target,
                   cache, pending, batches, cur, result, futures, job, stop, done, hist>>

\* os.replace(tmp_path, path): what the target and the temporary file hold afterwards
Replaced(tmp, old) == [target |-> tmp, tmpfile |-> NoFile]

SaveReplace ==
    /\ pc = "save_replace"
    /\ target' = Replaced(tmpfile, target).target
    /\ tmpfile' = Replaced(tmpfile, target).tmpfile
    /\ pc' = IF config.workers <= 1 THEN "sleep" ELSE "collect"
    /\ hist' = [hist EXCEPT !.saves = 1, !.prev = Replaced(tmpfile, target).target]
    /\ UNCHANGED <<now, envVars, endpointVars, textVars, mgrVars, call, calls, sent,
                   cache, pending, batches, cur, result, futures, job, stop, done>>

\* what the except branch leaves of the temporary file, lines 49-56: it is
\* unlinked if it exists, and an OSError of unlink is swallowed
AfterFailure(tmp) == IF tmp.exists THEN {NoFile, tmp} ELSE {NoFile}

\* an operation of the try block raises (mkdir, open, json.dump, os.replace):
\* the exception leaves safe_save_json, save_cache and run(), lines 49-56
SaveFail ==
    /\ pc \in {"save_open", "save_write", "save_replace"}
    /\ tmpfile' \in AfterFailure(tmpfile)
    /\ pc' = "save_failed"
    /\ UNCHANGED <<now, envVars, endpointVars, textVars, mgrVars, call, calls, sent, target,
                   cache, pending, batches, cur, result, futures, job, stop, done, hist>>

(***************************************************************************)
(* Translator.run, main thread                                             *)
(***************************************************************************)
\* runs: times run() was entered; startKeys: keys of the cache file when the run
\* loaded it; prev: the cache file as the last load or save left it; saves:
\* a save was completed; writes, written: the calls of write_translations;
\* late: the units of the batches whose translation ended after the stop request
NoHist ==
    [runs |-> 0, startKeys |-> {}, prev |-> NoFile, saves |-> 0,
     writes |-> 0, written |-> EmptyDict, late |-> {}]

\* mutant: the cache is not consulted
PendingAll(loaded) == Strings

\* line 216
Pending(loaded) == SelectSeq(Strings, LAMBDA u : u \notin DOMAIN loaded)

\* mutant: the cache is saved at the end of the run only
MergeDoneUnsaved == IF config.workers <= 1 THEN "sleep" ELSE "collect"

\* lines 292 and 310: save_cache follows the merge loop
MergeDone == "save_open"

NoFuture == [state |-> "none", result |-> <<>>]

\* lines 203-228 and 283
StartRun ==
    /\ pc = "idle"
    /\ hist.runs < MaxRuns
    /\ LET loaded == safe_load_json(target)
           strings == Pending(loaded)
           built == _build_batches(strings)
       IN /\ target' = AfterLoad(target)
          /\ cache' = loaded
          /\ pending' = strings
          /\ done' = Cardinality(DOMAIN loaded)
          /\ IF strings = <<>>
             THEN /\ pc' = "done"
                  /\ batches' = <<>>
                  /\ hist' = [hist EXCEPT !.runs = @ + 1, !.startKeys = DOMAIN loaded,
                                          !.prev = AfterLoad(target),
                                          !.writes = 1, !.written = loaded]
             ELSE /\ pc' = IF config.workers <= 1 THEN "seq_loop" ELSE "submit"
                  /\ batches' = built
                  /\ hist' = [hist EXCEPT !.runs = @ + 1, !.startKeys = DOMAIN loaded,
                                          !.prev = AfterLoad(target)]
          /\ futures' = [k \in 1..Len(built) |-> NoFuture]
    /\ cur' = 1
    /\ UNCHANGED <<now, envVars, endpointVars, textVars, mgrVars, call, calls, sent, tmpfile, result, job, stop>>

\* mutant: the engine is asked only once the cached strings were written back
StartFailLate ==
    /\ pc = "idle"
    /\ hist.runs < MaxRuns
    /\ pc' \in {"invalid_root", "extract_failed"}
    /\ hist' = [hist EXCEPT !.runs = @ + 1, !.writes = @ + 1, !.written = safe_load_json(target)]
    /\ UNCHANGED <<now, envVars, endpointVars, textVars, mgrVars, call, calls, sent, diskVars,
                   cache, pending, batches, cur, result, futures, job, stop, done>>

\* validate_game_root returns False, or extract_strings raises: run() raises,
\* lines 204-209
StartFail ==
    /\ pc = "idle"
    /\ hist.runs < MaxRuns
    /\ pc' \in {"invalid_root", "extract_failed"}
    /\ hist' = [hist EXCEPT !.runs = @ + 1]
    /\ UNCHANGED <<now, envVars, endpointVars, textVars, mgrVars, call, calls, sent, diskVars,
                   cache, pending, batches, cur, result, futures, job, stop, done>>

\* sequential path, lines 284-287
SeqLoop ==
    /\ pc = "seq_loop"
    /\ IF cur > Len(batches) \/ stop
       THEN /\ pc' = "after"
            /\ job' = job
       ELSE /\ pc' = "seq_batch"
            /\ job' = [job EXCEPT ![0] = [NoJob EXCEPT !.phase = "start", !.batch = cur]]
    /\ UNCHANGED <<now, envVars, endpointVars, textVars, mgrVars, call, calls, sent, diskVars,
                   cache, pending, batches, cur, result, futures, stop, done, hist>>

\* process_batch returned to the for loop, line 287
SeqBatchDone ==
    /\ pc = "seq_batch"
    /\ job[0].phase = "finished"
    /\ result' = job[0].result
    /\ job' = [job EXCEPT ![0] = NoJob]
    /\ pc' = "merge"
    /\ UNCHANGED <<now, envVars, endpointVars, textVars, mgrVars, call, calls, sent, diskVars,
                   cache, pending, batches, cur, futures, stop, done, hist>>

\* mutant: `done` counts the merged batches, not the merged units
MergeCountingBatches ==
    /\ pc = "merge"
    /\ IF result # <<>>
       THEN /\ cache' = Put(cache, Head(result)[1], Head(result)[2])
            /\ done' = IF Tail(result) = <<>> THEN done + 1 ELSE done
            /\ result' = Tail(result)
            /\ pc' = pc
       ELSE /\ pc' = MergeDone
            /\ UNCHANGED <<cache, done, result>>
    /\ UNCHANGED <<now, envVars, endpointVars, textVars, mgrVars, call, calls, sent, diskVars,
                   pending, batches, cur, futures, job, stop, hist>>

\* mutant: save_cache sits inside the merge loop, the file is rewritten after
\* every pair
MergeFlushingEach ==
    /\ pc = "merge"
    /\ IF result # <<>>
       THEN /\ cache' = Put(cache, Head(result)[1], Head(result)[2])
            /\ done' = done + 1
            /\ result' = Tail(result)
            /\ target' = [exists |-> TRUE, data |-> Dump(cache')]
            /\ pc' = pc
       ELSE /\ pc' = MergeDone
            /\ UNCHANGED <<cache, done, result, target>>
    /\ UNCHANGED <<now, envVars, endpointVars, textVars, mgrVars, call, calls, sent, tmpfile,
                   pending, batches, cur, futures, job, stop, hist>>

\* mutant: a unit that kept its source text is not stored in the cache
MergeSkippingFallback ==
    /\ pc = "merge"
    /\ IF result # <<>>
       THEN /\ cache' = IF Head(result)[2].from = "source" THEN cache
                         ELSE Put(cache, Head(result)[1], Head(result)[2])
            /\ done' = done + 1
            /\ result' = Tail(result)
            /\ pc' = pc
       ELSE /\ pc' = MergeDone
            /\ UNCHANGED <<cache, done, result>>
    /\ UNCHANGED <<now, envVars, endpointVars, textVars, mgrVars, call, calls, sent, diskVars,
                   pending, batches, cur, futures, job, stop, hist>>

\* lines 288-291 and 306-309: one (orig, translated) pair is merged, or the
\* loop ends and save_cache is called
Merge ==
    /\ pc = "merge"
    /\ IF result # <<>>
       THEN /\ cache' = Put(cache, Head(result)[1], Head(result)[2])
            /\ done' = done + 1
            /\ result' = Tail(result)
            /\ pc' = pc
       ELSE /\ pc' = MergeDone
            /\ UNCHANGED <<cache, done, result>>
    /\ UNCHANGED <<now, envVars, endpointVars, textVars, mgrVars, call, calls, sent, diskVars,
                   pending, batches, cur, futures, job, stop, hist>>

\* time.sleep(0.4), line 293
Sleep ==
    /\ pc = "sleep"
    /\ pc' = "seq_loop"
    /\ cur' = cur + 1
    /\ UNCHANGED <<now, envVars, endpointVars, textVars, mgrVars, call, calls, sent, diskVars,
                   cache, pending, batches, result, futures, job, stop, done, hist>>

\* worker-pool path: executor.submit, lines 297-300
Submit ==
    /\ pc = "submit"
    /\ IF cur > Len(batches) \/ stop
       THEN /\ pc' = "collect"
            /\ UNCHANGED <<cur, futures>>
       ELSE /\ futures' = [futures EXCEPT ![cur].state = "queued"]
            /\ cur' = cur + 1
            /\ pc' = pc
    /\ UNCHANGED <<now, envVars, endpointVars, textVars, mgrVars, call, calls, sent, diskVars,
                   cache, pending, batches, result, job, stop, done, hist>>

\* mutant: the executor starts a thread for every submitted batch
PoolThreadsAll == Workers

\* ThreadPoolExecutor(max_workers=self.workers), line 295
PoolThreads == {t \in Workers : t <= config.workers}

Queued == {k \in DOMAIN futures : futures[k].state = "queued"}

\* a pool thread takes the oldest queued batch
WorkerTake(t) ==
    /\ t \in PoolThreads
    /\ job[t].phase = "idle"
    /\ Queued # {}
    /\ LET k == CHOOSE x \in Queued : \A y \in Queued : x <= y
       IN /\ futures' = [futures EXCEPT ![k].state = "running"]
          /\ job' = [job EXCEPT ![t] = [NoJob EXCEPT !.phase = "start", !.batch = k]]
    /\ UNCHANGED <<now, envVars, endpointVars, textVars, mgrVars, call, calls, sent, diskVars,
                   pc, cache, pending, batches, cur, result, stop, done, hist>>

\* process_batch returned in a pool thread: the future completes
WorkerDone(t) ==
    /\ t \in PoolThreads
    /\ job[t].phase = "finished"
    /\ futures' = [futures EXCEPT ![job[t].batch] = [state |-> "done", result |-> job[t].result]]
    /\ job' = [job EXCEPT ![t] = NoJob]
    /\ UNCHANGED <<now, envVars, endpointVars, textVars, mgrVars, call, calls, sent, diskVars,
                   pc, cache, pending, batches, cur, result, stop, done, hist>>

\* as_completed yields a completed future, lines 301-305
Collect ==
    /\ pc = "collect"
    /\ \E k \in DOMAIN futures :
          /\ futures[k].state = "done"
          /\ futures' = [futures EXCEPT ![k] = [state |-> "taken", result |-> <<>>]]
          /\ IF futures[k].result = <<>>
             THEN UNCHANGED <<pc, result>>
             ELSE /\ result' = futures[k].result
                  /\ pc' = "merge"
    /\ UNCHANGED <<now, envVars, endpointVars, textVars, mgrVars, call, calls, sent, diskVars,
                   cache, pending, batches, cur, job, stop, done, hist>>

\* as_completed is exhausted and the executor shut down
CollectEnd ==
    /\ pc = "collect"
    /\ \A k \in DOMAIN futures : futures[k].state \in {"none", "taken"}
    /\ pc' = "after"
    /\ UNCHANGED <<now, envVars, endpointVars, textVars, mgrVars, call, calls, sent, diskVars,
                   cache, pending, batches, cur, result, futures, job, stop, done, hist>>

\* mutant: the translations are written whether or not a stop was requested
FinishWriting ==
    /\ pc = "after"
    /\ pc' = "done"
    /\ hist' = [hist EXCEPT !.writes = @ + 1, !.written = cache]
    /\ UNCHANGED <<now, envVars, endpointVars, textVars, mgrVars, call, calls, sent, diskVars,
                   cache, pending, batches, cur, result, futures, job, stop, done>>

\* lines 312-318
Finish ==
    /\ pc = "after"
    /\ pc' = "done"
    /\ hist' = IF stop THEN hist
               ELSE [hist EXCEPT !.writes = @ + 1, !.written = cache]
    /\ UNCHANGED <<now, envVars, endpointVars, textVars, mgrVars, call, calls, sent, diskVars,
                   cache, pending, batches, cur, result, futures, job, stop, done>>

\* the user asks the run to stop: stop_event.set()
SetStop ==
    /\ pc \notin {"idle", "done"}
    /\ ~stop
    /\ stop' = TRUE
    /\ UNCHANGED <<now, envVars, endpointVars, textVars, mgrVars, call, calls, sent, diskVars,
                   pc, cache, pending, batches, cur, result, futures, job, done, hist>>

(***************************************************************************)
(* GlossaryManager (src/glossary.py): the entry list and its source index. *)
(* An entry is [source, target, case_sensitive]; two entries are equal     *)
(* when their fields are (GlossaryEntry is a dataclass).                   *)
(***************************************************************************)
\* str.lower(), character by character
lower(text) ==
    [k \in 1..Len(text) |-> IF text[k] = "A" THEN "a" ELSE IF text[k] = "B" THEN "b" ELSE text[k]]

\* the key an entry is indexed under, line 72
KeyOf(entry) == IF entry.case_sensitive THEN entry.source ELSE lower(entry.source)

\* add_entry, lines 62-73
add_entry(g, entry) ==
    [entries |-> Append(g.entries, entry),
     index |-> [k \in (DOMAIN g.index) \cup {KeyOf(entry)} |->
                  IF k = KeyOf(entry) THEN entry ELSE g.index[k]]]

\* list.remove(x): the first element equal to x is removed
list_remove(seq, x) ==
    LET first == CHOOSE i \in 1..Len(seq) : seq[i] = x /\ \A j \in 1..(i - 1) : seq[j] # x
    IN SubSeq(seq, 1, first - 1) \o SubSeq(seq, first + 1, Len(seq))

\* remove_entry, lines 80-87
remove_entry(g, source) ==
    LET key == lower(source)
    IN IF key \in DOMAIN g.index
       THEN [entries |-> list_remove(g.entries, g.index[key]),
             index |-> [k \in (DOMAIN g.index) \ {key} |-> g.index[k]]]
       ELSE g

\* get_entry, lines 89-95
GlossaryManager_get_entry(index, source) ==
    IF source \in DOMAIN index THEN index[source]
    ELSE IF lower(source) \in DOMAIN index THEN index[lower(source)]
    ELSE None

\* the index of a glossary built with add_entries, lines 75-78
RECURSIVE IndexOf(_)
IndexOf(entries) ==
    IF entries = <<>> THEN EmptyDict
    ELSE add_entry([entries |-> <<>>, index |-> IndexOf(SubSeq(entries, 1, Len(entries) - 1))],
                   entries[Len(entries)]).index

(***************************************************************************)
(* The process and its environment                                         *)
(***************************************************************************)
\* APIManager.__init__ and add_api, as called by Translator.__init__
NewManager(n) ==
    [stats |-> [a \in Backends |-> NewStats],
     token_pools |-> [a \in Backends |-> IF a = Chain[1] THEN NewPool(n) ELSE NewPool(1)],
     last_request_time |-> [a \in Backends |-> 0]]

\* the process is killed: what it held in memory is gone, the files stay
Kill ==
    /\ pc # "idle"
    /\ pc' = "idle"
    /\ now' = ClockStart
    /\ stats' = NewManager(1).stats
    /\ token_pools' = [a \in Backends |-> NewPool(Len(token_pools[a].tokens))]
    /\ last_request_time' = NewManager(1).last_request_time
    /\ call' = [t \in Threads |-> NoCall]
    /\ sent' = {}
    /\ cache' = EmptyDict
    /\ pending' = <<>>
    /\ batches' = <<>>
    /\ cur' = 0
    /\ result' = <<>>
    /\ futures' = <<>>
    /\ job' = [t \in Threads |-> NoJob]
    /\ stop' = FALSE
    /\ done' = 0
    /\ hist' = [NoHist EXCEPT !.runs = hist.runs]
    /\ _memory_cache' = EmptyDict
    /\ _long_cache_db' = [e \in Endpoints |-> None]
    /\ probe' = NoProbe
    /\ UNCHANGED <<envVars, textVars, calls, diskVars, sqlite>>

TotalLen == NumUnits * NumUnits

\* one batch; batches cut by max_chars; two batches for a pool of two workers
SeqConfigs ==
    {[batch_size |-> NumUnits, max_chars |-> TotalLen, workers |-> 1],
     [batch_size |-> NumUnits, max_chars |-> 6, workers |-> 1]}
ParConfigs ==
    {[batch_size |-> (NumUnits + 1) \div 2, max_chars |-> TotalLen, workers |-> 2]}

\* a cache file left by an earlier run
OldCache == [exists |-> TRUE, data |-> Dump([u \in {2} |-> Post(Tr(Chain[1], u))])]

Profile(a, b) == [x \in Backends |-> IF x = Chain[1] THEN a ELSE b]

\* no text is being processed
NoUnit == [stage |-> "none", original |-> <<>>, before |-> <<>>, text |-> <<>>,
           tokens |-> <<>>, placeholders |-> <<>>]

InitAll(profiles, registered, configs, poisons, files, pools, glossaries, rulelists, units) ==
    /\ now = ClockStart
    /\ apis \in registered
    /\ behaviour \in profiles
    /\ poison \in (IF \E a \in Backends : behaviour[a] = "poison" THEN poisons ELSE {{}})
    /\ config \in configs
    /\ \E n \in pools :
          /\ stats = NewManager(n).stats
          /\ token_pools = NewManager(n).token_pools
          /\ last_request_time = NewManager(n).last_request_time
    /\ call = [t \in Threads |-> NoCall]
    /\ calls = 0
    /\ sent = {}
    /\ target \in files
    /\ tmpfile = NoFile
    /\ pc = "idle"
    /\ cache = EmptyDict
    /\ pending = <<>>
    /\ batches = <<>>
    /\ cur = 0
    /\ result = <<>>
    /\ futures = <<>>
    /\ job = [t \in Threads |-> NoJob]
    /\ stop = FALSE
    /\ done = 0
    /\ hist = NoHist
    /\ glossary \in glossaries
    /\ _source_index = IndexOf(glossary)
    /\ rules \in rulelists
    /\ unit \in units
    /\ _memory_cache = EmptyDict
    /\ _long_cache_db = [e \in Endpoints |-> None]
    /\ sqlite = EmptyDict
    /\ probe = NoProbe

\* a process with no glossary, no post-processing rules and no text in hand
InitWith(profiles, registered, configs, poisons, files, pools) ==
    InitAll(profiles, registered, configs, poisons, files, pools, {<<>>}, {<<>>}, {NoUnit})

(***************************************************************************)
(* SpecApi: callers of APIManager.translate_with_fallback.                 *)
(***************************************************************************)
Prefixes == {SubSeq(Strings, 1, k) : k \in 1..NumUnits}

InitApi ==
    InitWith({Profile("any", "any"), Profile("fail", "ok"), Profile("fail", "fail")},
             {Backends}, {[batch_size |-> 1, max_chars |-> 1, workers |-> 1]}, {{}}, {NoFile},
             1..MaxTokens)

CallerBegin(t) ==
    /\ call[t].phase = "none"
    /\ calls < MaxCalls
    /\ \E texts \in Prefixes : call' = [call EXCEPT ![t] = BeginCall(t, texts)]
    /\ calls' = calls + 1
    /\ UNCHANGED <<now, envVars, endpointVars, textVars, mgrVars, sent, diskVars, runVars>>

CallerEnd(t) ==
    /\ call[t].phase \in {"returned", "raised"}
    /\ call' = [call EXCEPT ![t] = NoCall]
    /\ UNCHANGED <<now, envVars, endpointVars, textVars, mgrVars, calls, sent, diskVars, runVars>>

NextApi ==
    \/ \E t \in Callers : CallerBegin(t)
    \/ \E t \in Callers : ApiExhausted(t)
    \/ \E t \in Callers : ApiCheck(t)
    \/ \E t \in Callers : ApiRateRead(t)
    \/ \E t \in Callers : ApiInvoke(t)
    \/ \E t \in Callers : ApiReturn(t)
    \/ \E t \in Callers : CallerEnd(t)
    \/ Tick

SpecApi == InitApi /\ [][NextApi]_vars

(***************************************************************************)
(* SpecRun: one Translator.run.                                            *)
(***************************************************************************)
InitRun ==
    \/ InitWith({Profile("any", "any")}, {{Chain[1]}}, SeqConfigs, {{}},
                {NoFile, OldCache}, {1})
    \/ InitWith({Profile("poison", "poison")}, {{Chain[1]}, Backends}, SeqConfigs, SUBSET Units,
                {NoFile, OldCache}, {1})
    \/ InitWith({Profile("poison", "poison")}, {{Chain[1]}}, ParConfigs, {{}, {2}, Units},
                {NoFile}, {1})
    \/ InitWith({Profile("poison", "poison")}, {Backends}, ParConfigs, {{}, {2}},
                {NoFile}, {1})

RunStep ==
    \/ StartRun
    \/ SeqLoop \/ SeqBatchDone \/ Sleep
    \/ Submit \/ Collect \/ CollectEnd
    \/ \E t \in Workers : WorkerTake(t)
    \/ \E t \in Workers : WorkerDone(t)
    \/ \E t \in Threads : JobStart(t)
    \/ \E t \in Threads : JobCall(t)
    \/ \E t \in Threads : JobCallEnd(t)
    \/ \E t \in Threads : JobFinish(t)
    \/ \E t \in Threads : ApiExhausted(t)
    \/ \E t \in Threads : ApiCheck(t)
    \/ \E t \in Threads : ApiRateRead(t)
    \/ \E t \in Threads : ApiInvoke(t)
    \/ \E t \in Threads : ApiReturn(t)
    \/ Merge \/ SaveOpen \/ SaveWrite \/ SaveReplace
    \/ Finish
    \/ Tick

NextRun ==
    \/ RunStep
    \/ SetStop

SpecRun == InitRun /\ [][NextRun]_vars

(***************************************************************************)
(* Spec: Translator.run, killed at any point and started again.            *)
(***************************************************************************)
Init ==
    \/ InitWith({Profile("poison", "poison")}, {{Chain[1]}}, SeqConfigs, {{}, {2}, Units},
                {NoFile}, {1})
    \/ InitWith({Profile("poison", "poison")}, {{Chain[1]}}, ParConfigs, {{}, {2}},
                {NoFile}, {1})

Next ==
    \/ RunStep
    \/ Kill

Spec == Init /\ [][Next]_vars

(***************************************************************************)
(* Properties                                                              *)
(***************************************************************************)
SavePcs == {"save_open", "save_write", "save_replace"}

ChainIndex(a) == CHOOSE k \in 1..Len(Chain) : Chain[k] = a

LastEvent(t) == call[t].trace[Len(call[t].trace)]

\* the backend the loop of thread t is at
ApiAt(t) == call[t].avail[call[t].i]

\* thread t takes the step at the top of the loop body
ChecksBackend(t) ==
    /\ call[t].phase = "loop"
    /\ call[t].i <= Len(call[t].avail)
    /\ call'[t] # call[t]

\* that step skips the backend
Skips(t) ==
    /\ call'[t].phase = "loop"
    /\ call'[t].i = call[t].i + 1

QuietPcs == {"seq_loop", "seq_batch", "sleep", "submit", "collect", "after", "done"}

\* C1: whenever the process is killed during a cache save, the cache file holds
\* a complete document: it is parsable at every moment, and from the opening
\* of the temporary file until the replace it still is the file that the
\* previous load or save left.
C1_AtomicSave ==
    /\ target.exists => Parsable(target.data)
    /\ pc \in SavePcs => target = hist.prev

\* the process was killed while the temporary file was half written, over a
\* cache file written by an earlier save
C1_Witness ==
    /\ pc = "idle"
    /\ hist.runs >= 1
    /\ tmpfile.exists /\ tmpfile.data # <<>> /\ ~Parsable(tmpfile.data)
    /\ target.exists /\ Len(target.data) > 2

\* C2: no string that was a key of the persisted cache when the run started
\* is passed to a backend during the run, also in a run started after a kill.
C2_CachedNotResent == sent \cap hist.startKeys = {}

\* a run started after a kill found cached strings and sent others
C2_Witness ==
    /\ hist.runs = 2
    /\ hist.startKeys # {}
    /\ sent # {}

\* C3: whenever no merge or save is in progress, the persisted cache equals
\* the cache in memory.
C3_FlushedPerBatch == pc \in QuietPcs => safe_load_json(target) = cache

\* a batch has been merged and saved while another is still being translated
C3_Witness ==
    /\ pc \in {"seq_batch", "collect"}
    /\ hist.saves = 1
    /\ cache # EmptyDict
    /\ \E t \in Threads : job[t].phase = "translate"
    /\ safe_load_json(target) = cache

\* C4: whatever the backends raise, a run that was not asked to stop ends
\* with a cache entry for every extracted string and with exactly one call
\* of write_translations, whose map has an entry for every extracted string.
C4_FailuresDegrade ==
    /\ hist.writes <= 1
    /\ (pc = "done" /\ ~stop) =>
          /\ DOMAIN cache = Units
          /\ hist.writes = 1
          /\ DOMAIN hist.written = Units

\* every call of both backends failed; the run wrote the source texts back
C4_Witness ==
    /\ pc = "done" /\ ~stop
    /\ apis = Backends /\ behaviour = Profile("poison", "poison") /\ poison = Units
    /\ hist.writes = 1
    /\ \A u \in Units \ hist.startKeys : hist.written[u] = Post(Src(u))
    /\ stats["B"].failed_requests > 0

\* C5: when the backends fail exactly the calls whose input holds a poison
\* unit, a run ends with a backend's translation for every unit that is not
\* poison and with the source text for the poison units only.
C5_BisectionIsolates ==
    (pc = "done" /\ ~stop /\ \A a \in apis : behaviour[a] = "poison") =>
        \A u \in Units \ hist.startKeys :
            IF u \in poison
            THEN cache[u] = Post(Src(u))
            ELSE \E a \in apis : cache[u] = Post(Tr(a, u))

\* C6: with the chain [A, B], every call to A raising and every call to B
\* succeeding, no call of translate_with_fallback raises and every call that
\* has returned holds B's translation of each of its texts.
C6_FallsThroughToB ==
    (behaviour = Profile("fail", "ok") /\ apis = Backends) =>
        \A t \in Threads :
            /\ call[t].phase # "raised"
            /\ call[t].phase = "returned" =>
                  call[t].result = [k \in 1..Len(call[t].texts) |-> Tr("B", call[t].texts[k])]

\* a call returned B's result after A, suspended by then, was skipped
C6_Witness ==
    /\ behaviour = Profile("fail", "ok")
    /\ call[1].phase = "returned"
    /\ call[1].trace = <<Event("A", "skip"), Event("B", "invoke"), Event("B", "ok")>>
    /\ call[1].result = [k \in 1..Len(call[1].texts) |-> Tr("B", call[1].texts[k])]

\* C7: within one call the backends are invoked in chain order: when a
\* backend is invoked, every backend before it in the chain was skipped or
\* has raised in this call, and nothing is invoked after a success.
C7_ChainOrder ==
    \A t \in Threads :
        LET tr == call[t].trace
        IN \A p \in 1..Len(tr) :
              /\ tr[p].ev = "invoke" =>
                    \A a \in apis :
                        ChainIndex(a) < ChainIndex(tr[p].api) =>
                            \E q \in 1..(p - 1) : tr[q].api = a /\ tr[q].ev \in {"skip", "raise"}
              /\ tr[p].ev = "ok" => p = Len(tr)

\* the second backend was invoked after the first one raised
C7_Witness ==
    call[1].trace = <<Event("A", "invoke"), Event("A", "raise"),
                      Event("B", "invoke"), Event("B", "ok")>>

\* C8: a call that ends by raising, after at least one backend failed in it,
\* raises the exception of the backend that failed last; and it ends by
\* raising whenever every backend of the chain failed.
C8_LastErrorPropagates ==
    \A t \in Threads :
        LET tr == call[t].trace
            raises == {p \in 1..Len(tr) : tr[p].ev = "raise"}
            last == CHOOSE p \in raises : \A q \in raises : q <= p
        IN /\ (call[t].phase = "raised" /\ raises # {}) =>
                  call[t].raised = ErrorOf(tr[last].api)
           /\ (call[t].phase \in {"returned", "raised"}
                 /\ \A a \in apis : \E p \in raises : tr[p].api = a) =>
                  call[t].phase = "raised"

\* both backends failed and the call raised the second one's exception
C8_Witness ==
    /\ call[1].phase = "raised"
    /\ \E p, q \in 1..Len(call[1].trace) :
          /\ p < q
          /\ call[1].trace[p] = Event("A", "raise")
          /\ call[1].trace[q] = Event("B", "raise")
    /\ call[1].raised = ErrorOf("B")

\* C9 as claimed: a backend is skipped, its statistics untouched, exactly when
\* its consecutive failures exceed the threshold and its last error is less
\* than failure_cooldown old.
C9_SkipsWhenExceeding ==
    [][\A t \in Threads :
          ChecksBackend(t) =>
              /\ Skips(t) <=>
                    /\ stats[ApiAt(t)].consecutive_failures > max_consecutive_failures
                    /\ now - stats[ApiAt(t)].last_error_time < failure_cooldown
              /\ Skips(t) => <<stats, token_pools, last_request_time>>' =
                                 <<stats, token_pools, last_request_time>>]_vars

\* C9 amended: ... exactly when its consecutive failures have reached the
\* threshold (count >= max_consecutive_failures) and its last error is less
\* than failure_cooldown old.
C9_SkipsWhenReaching ==
    [][\A t \in Threads :
          ChecksBackend(t) =>
              /\ Skips(t) <=>
                    /\ stats[ApiAt(t)].consecutive_failures >= max_consecutive_failures
                    /\ now - stats[ApiAt(t)].last_error_time < failure_cooldown
              /\ Skips(t) => <<stats, token_pools, last_request_time>>' =
                                 <<stats, token_pools, last_request_time>>]_vars

\* a backend with exactly max_consecutive_failures failures was skipped, and
\* the primary backend was invoked again once its cooldown had expired
C9_Witness ==
    /\ call[1].trace # <<>>
    /\ LastEvent(1).ev = "skip"
    /\ stats[LastEvent(1).api].consecutive_failures = max_consecutive_failures
    /\ stats["A"].consecutive_failures > max_consecutive_failures

\* C10: the token on which an error is recorded when a backend call raises is
\* the token that backend uses for its requests.
C10_ErrorOnTokenInUse ==
    \A t \in Threads :
        \A k \in 1..Len(call[t].marked) :
            call[t].marked[k].token = api_key(call[t].marked[k].api)

\* C11: whenever a backend's translate operation is invoked through the API
\* manager, at least the backend's minimum inter-request interval has passed
\* since its previous invocation started, by this or by any other thread.
C11_RateLimited ==
    [][\A t \in Threads :
          (call[t].phase = "wait" /\ call'[t].phase = "in_flight") =>
              now - last_request_time[ApiAt(t)] >= min_interval]_vars

(***************************************************************************)
(* SpecPool: a caller uses the TokenPool of the primary backend directly.  *)
(***************************************************************************)
InitPool ==
    InitWith({Profile("ok", "ok")}, {Backends}, {[batch_size |-> 1, max_chars |-> 1, workers |-> 1]},
             {{}}, {NoFile}, 0..MaxTokens)

PoolTokens == 1..Len(token_pools[Chain[1]].tokens)

\* the last operation a caller made on the pool
PoolEvent(op, token) == [api |-> Chain[1], ev |-> op, token |-> token]

\* pool.get_next_token(): the caller keeps the token it was handed
PoolGet ==
    /\ calls < MaxCalls
    /\ LET got == get_next_token(token_pools[Chain[1]], now)
       IN /\ token_pools' = [token_pools EXCEPT ![Chain[1]] = got.pool]
          /\ call' = [call EXCEPT ![1].marked = <<[api |-> Chain[1], token |-> got.token]>>,
                                  ![1].trace = <<PoolEvent("get_next_token", got.token)>>]
    /\ calls' = calls + 1
    /\ UNCHANGED <<now, envVars, endpointVars, textVars, stats, last_request_time, sent, diskVars, runVars>>

\* pool.record_error(token)
PoolError ==
    /\ calls < MaxCalls
    /\ \E k \in PoolTokens :
          /\ token_pools' = [token_pools EXCEPT ![Chain[1]] = record_error(@, k, now)]
          /\ call' = [call EXCEPT ![1].trace = <<PoolEvent("record_error", k)>>]
    /\ calls' = calls + 1
    /\ UNCHANGED <<now, envVars, endpointVars, textVars, stats, last_request_time, sent, diskVars, runVars>>

\* pool.record_success(token)
PoolSuccess ==
    /\ calls < MaxCalls
    /\ \E k \in PoolTokens :
          /\ token_pools' = [token_pools EXCEPT ![Chain[1]] = TokenPool_record_success(@, k)]
          /\ call' = [call EXCEPT ![1].trace = <<PoolEvent("record_success", k)>>]
    /\ calls' = calls + 1
    /\ UNCHANGED <<now, envVars, endpointVars, textVars, stats, last_request_time, sent, diskVars, runVars>>

\* Half a token cooldown, or a whole one, passes between two uses of the pool.
\* The pool reads the clock to compare it with the cooldowns only, so time is
\* advanced while some cooldown is active.
PoolTickSteps == {cooldown_seconds \div 2, cooldown_seconds}
PoolElapsed == 2 * cooldown_seconds

PoolTick ==
    /\ \E k \in PoolTokens : token_pools[Chain[1]].cooldown_until[k] > now
    /\ \E d \in PoolTickSteps :
          /\ now + d <= ClockStart + PoolElapsed
          /\ now' = now + d
    /\ UNCHANGED <<envVars, endpointVars, textVars, mgrVars, call, calls, sent, diskVars, runVars>>

NextPool == PoolGet \/ PoolError \/ PoolSuccess \/ PoolTick

SpecPool == InitPool /\ [][NextPool]_vars

\* the tokens with no active cooldown and no outstanding skip round
Eligible(pool, t) ==
    {k \in 1..Len(pool.tokens) : pool.cooldown_until[k] <= t /\ pool.skip_rounds[k - 1] = 0}

\* C12: whenever some token of a pool is eligible (no active cooldown, zero
\* skip rounds), get_next_token returns an eligible token, never one that is
\* in active cooldown or has skip rounds outstanding.
C12_ReturnsEligible ==
    \A a \in Backends :
        Eligible(token_pools[a], now) # {} =>
            get_next_token(token_pools[a], now).token \in Eligible(token_pools[a], now)

\* a token took two record_error calls with no record_success and is still
\* cooling down; get_next_token handed out another, eligible, token
C12_Witness ==
    LET pool == token_pools[Chain[1]]
    IN /\ call[1].marked # <<>>
       /\ \E k \in 1..Len(pool.tokens) :
             /\ pool.error_counts[k] >= 2
             /\ pool.cooldown_until[k] > now
             /\ call[1].marked[1].token # k
             /\ call[1].marked[1].token \in Eligible(pool, now)

(***************************************************************************)
(* SpecBatch: Translator._build_batches on arbitrary pending lists.        *)
(***************************************************************************)
\* the lists of distinct units, in any order
PendingLists ==
    UNION {{q \in [1..n -> Units] : \A i, j \in 1..n : q[i] = q[j] => i = j} : n \in 0..NumUnits}

\* batch_size (maxCount) from 1, max_chars from below the shortest unit
BatchConfigs ==
    [batch_size : 1..NumUnits, max_chars : 0..(2 * NumUnits + 1), workers : {1}]

InitBatch ==
    InitWith({Profile("ok", "ok")}, {{Chain[1]}}, BatchConfigs, {{}}, {NoFile}, {1})

\* batches = self._build_batches(pending), line 228
BuildBatches ==
    /\ \E strings \in PendingLists :
          /\ pending' = strings
          /\ batches' = _build_batches(strings)
    /\ UNCHANGED <<now, envVars, endpointVars, textVars, mgrVars, call, calls, sent, diskVars,
                   pc, cache, cur, result, futures, job, stop, done, hist>>

NextBatch == BuildBatches

SpecBatch == InitBatch /\ [][NextBatch]_vars

RECURSIVE Concat(_)
Concat(seqs) == IF seqs = <<>> THEN <<>> ELSE Head(seqs) \o Concat(Tail(seqs))

RECURSIVE Sum(_)
Sum(ns) == IF ns = <<>> THEN 0 ELSE Head(ns) + Sum(Tail(ns))

\* total_chars of a batch
SumLen(batch) == Sum([k \in 1..Len(batch) |-> MaskedLen(batch[k])])

\* C13: the batches built from a pending list, concatenated in order, are the
\* pending list itself, and no batch is empty (so the batch sizes add up to
\* the size of the input).
C13_BatchesPartitionInput ==
    /\ Concat(batches) = pending
    /\ \A b \in 1..Len(batches) : batches[b] # <<>>
    /\ Sum([b \in 1..Len(batches) |-> Len(batches[b])]) = Len(pending)

\* a list of all units, not in order, was cut into several batches, one of
\* them closed by the character limit and one by the count limit
C13_Witness ==
    /\ Len(pending) = NumUnits /\ pending # Strings
    /\ Len(batches) >= 3
    /\ \E b \in 1..Len(batches) : Len(batches[b]) = config.batch_size /\ Len(batches[b]) > 1
    /\ \E b \in 1..Len(batches) : Len(batches[b]) < config.batch_size

\* C14: no batch has more than batch_size units, no batch of several units
\* has a total masked length above max_chars, and a unit whose masked length
\* alone is above max_chars is the only unit of its batch.
C14_BatchLimits ==
    \A b \in 1..Len(batches) :
        /\ Len(batches[b]) <= config.batch_size
        /\ Len(batches[b]) > 1 => SumLen(batches[b]) <= config.max_chars
        /\ \A k \in 1..Len(batches[b]) :
              MaskedLen(batches[b][k]) > config.max_chars => Len(batches[b]) = 1

\* an oversized unit sits alone between batches of several units that are
\* full by count or by characters
C14_Witness ==
    /\ \E b \in 1..Len(batches) :
          Len(batches[b]) = 1 /\ MaskedLen(batches[b][1]) > config.max_chars
    /\ \E b \in 1..Len(batches) :
          Len(batches[b]) > 1 /\ SumLen(batches[b]) = config.max_chars
    /\ Len(pending) = NumUnits

(***************************************************************************)
(* Texts.  A text is the sequence of its characters; "LF" is the newline   *)
(* character.                                                              *)
(***************************************************************************)
NL_TOKEN == <<"<", "N", "L", ">">>
Newline == <<"LF">>
Digits == <<"0", "1", "2", "3", "4", "5", "6", "7", "8", "9">>

\* the texts of at most n characters over an alphabet
TextsOver(chars, n) == UNION {[1..k -> chars] : k \in 0..n}

\* pat occurs in text at position i
OccursAt(text, pat, i) ==
    /\ i + Len(pat) - 1 <= Len(text)
    /\ SubSeq(text, i, i + Len(pat) - 1) = pat

Contains(text, pat) == \E i \in 1..(Len(text) + 1) : OccursAt(text, pat, i)

RECURSIVE ReplaceFrom(_, _, _, _)
ReplaceFrom(text, pat, rep, i) ==
    IF i > Len(text) THEN <<>>
    ELSE IF OccursAt(text, pat, i) THEN rep \o ReplaceFrom(text, pat, rep, i + Len(pat))
    ELSE <<text[i]>> \o ReplaceFrom(text, pat, rep, i + 1)

RECURSIVE Interleave(_, _)
Interleave(text, rep) ==
    IF text = <<>> THEN rep ELSE rep \o <<Head(text)>> \o Interleave(Tail(text), rep)

\* str.replace(pat, rep): the non-overlapping occurrences, leftmost first;
\* an empty pat matches before every character and at the end
str_replace(text, pat, rep) ==
    IF pat = <<>> THEN Interleave(text, rep) ELSE ReplaceFrom(text, pat, rep, 1)

Whitespace == {" ", "LF"}

\* str.strip()
RECURSIVE strip(_)
strip(text) ==
    IF text = <<>> THEN text
    ELSE IF Head(text) \in Whitespace THEN strip(Tail(text))
    ELSE IF text[Len(text)] \in Whitespace THEN strip(SubSeq(text, 1, Len(text) - 1))
    ELSE text

(***************************************************************************)
(* mask_text / unmask_text (src/translator_core.py)                        *)
(***************************************************************************)
\* PLACEHOLDER_RE matched at position i: the position of the last character
\* of the match, 0 if there is none.  "[" takes one or more characters other
\* than "]" and then "]"; "{" takes characters other than braces and then "}".
MatchEnd(text, i) ==
    LET after == (i + 1)..Len(text)
        least(S) == CHOOSE j \in S : \A k \in S : j <= k
    IN IF text[i] = "["
       THEN LET closers == {j \in after : text[j] = "]"}
            IN IF closers # {} /\ least(closers) >= i + 2 THEN least(closers) ELSE 0
       ELSE IF text[i] = "{"
       THEN LET braces == {j \in after : text[j] \in {"{", "}"}}
            IN IF braces # {} /\ text[least(braces)] = "}" THEN least(braces) ELSE 0
       ELSE 0

\* f"<P{len(tokens)}>"
Key(n) == <<"<", "P", Digits[n + 1], ">">>

RECURSIVE MaskFrom(_, _, _, _)
MaskFrom(text, i, masked, tokens) ==
    IF i > Len(text) THEN [masked |-> masked, tokens |-> tokens]
    ELSE IF MatchEnd(text, i) > 0
    THEN MaskFrom(text, MatchEnd(text, i) + 1, masked \o Key(Len(tokens)),
                  Append(tokens, [key |-> Key(Len(tokens)),
                                  value |-> SubSeq(text, i, MatchEnd(text, i))]))
    ELSE MaskFrom(text, i + 1, Append(masked, text[i]), tokens)

mask_text(text) == MaskFrom(text, 1, <<>>, <<>>)

RECURSIVE Restore(_, _)
Restore(text, tokens) ==
    IF tokens = <<>> THEN text
    ELSE Restore(str_replace(text, Head(tokens).key, Head(tokens).value), Tail(tokens))

unmask_text(text, tokens) == Restore(str_replace(text, NL_TOKEN, Newline), tokens)

\* a new text enters
NewUnit(s) == [NoUnit EXCEPT !.stage = "new", !.original = s, !.text = s]

\* masked, tokens = mask_text(s)
UnitMask ==
    /\ unit.stage = "new"
    /\ unit' = [unit EXCEPT !.stage = "masked",
                            !.before = unit.text,
                            !.text = mask_text(unit.text).masked,
                            !.tokens = mask_text(unit.text).tokens]
    /\ UNCHANGED <<now, envVars, endpointVars, mgrVars, call, calls, sent, diskVars, runVars, glossary, _source_index, rules>>

\* unmask_text(masked, tokens)
UnitUnmask ==
    /\ unit.stage = "masked"
    /\ unit' = [unit EXCEPT !.stage = "unmasked",
                            !.before = unit.text,
                            !.text = unmask_text(unit.text, unit.tokens)]
    /\ UNCHANGED <<now, envVars, endpointVars, mgrVars, call, calls, sent, diskVars, runVars, glossary, _source_index, rules>>

(***************************************************************************)
(* SpecMask: mask_text and unmask_text applied to a text, one after the    *)
(* other.                                                                  *)
(***************************************************************************)
MaskChars == {"a", "[", "]", "{", "}", "<", "N", "L", ">"}

\* one text in hand, the API manager and the run idle
InitText(glossaries, rulelists, texts) ==
    InitAll({Profile("ok", "ok")}, {{Chain[1]}}, {[batch_size |-> 1, max_chars |-> 1, workers |-> 1]},
            {{}}, {NoFile}, {1}, glossaries, rulelists, {NewUnit(s) : s \in texts})

InitMask == InitText({<<>>}, {<<>>}, TextsOver(MaskChars, MaxLen))

NextMask == UnitMask \/ UnitUnmask

SpecMask == InitMask /\ [][NextMask]_vars

RECURSIVE Depth(_, _, _)
\* the nesting depth after the text, -1 once a closer came without its opener
Depth(text, open, close) ==
    IF text = <<>> THEN 0
    ELSE LET d == Depth(SubSeq(text, 1, Len(text) - 1), open, close)
             c == text[Len(text)]
         IN IF d < 0 THEN d
            ELSE IF c = open THEN d + 1
            ELSE IF c = close THEN d - 1
            ELSE d

\* the placeholder syntax of the text is well-formed
Balanced(text) == Depth(text, "[", "]") = 0 /\ Depth(text, "{", "}") = 0

\* C15: for every text with balanced [..] and {..}, unmask_text applied to
\* the masked text and the token map of mask_text gives the text back.
C15_MaskRoundTrip ==
    (unit.stage = "unmasked" /\ Balanced(unit.original)) => unit.text = unit.original

(***************************************************************************)
(* GlossaryManager (src/glossary.py), for literal case-sensitive entries.  *)
(***************************************************************************)
Letters == <<"B", "C", "D", "E", "F", "G", "H", "I", "J", "K", "L", "M",
             "N", "O", "P", "Q", "R", "S", "T", "U", "V", "W", "X", "Y">>

\* the placeholder of entry number i (from 0), lines 122-124
Placeholder(i) ==
    IF i >= 24
    THEN <<"Z", "X", Letters[(i % 24) + 1], Digits[(i \div 24) + 1], "Z">>
    ELSE <<"Z", "X", Letters[(i % 24) + 1], "Z">>

RECURSIVE PreFrom(_, _, _, _)
PreFrom(entries, i, acc, placeholders) ==
    IF i > Len(entries) THEN [text |-> acc, placeholders |-> placeholders]
    ELSE PreFrom(entries, i + 1,
                 str_replace(acc, entries[i].source, Placeholder(i - 1)),
                 IF Contains(acc, entries[i].source)
                 THEN Append(placeholders, [placeholder |-> Placeholder(i - 1),
                                            original |-> entries[i].source])
                 ELSE placeholders)

apply_pre_translation(entries, text) == PreFrom(entries, 1, text, <<>>)

\* _source_index[source]: the entry added last under that key; 0 if none
get_entry(entries, source) ==
    LET found == {i \in 1..Len(entries) : entries[i].source = source}
    IN IF found = {} THEN 0 ELSE CHOOSE i \in found : \A j \in found : j <= i

\* upper case of a character, for re.IGNORECASE
Fold(c) == IF c = "a" THEN "A" ELSE IF c = "b" THEN "B" ELSE c

FoldText(text) == [k \in 1..Len(text) |-> Fold(text[k])]

RECURSIVE SubFrom(_, _, _, _)
SubFrom(text, pat, rep, i) ==
    IF i > Len(text) THEN <<>>
    ELSE IF OccursAt(FoldText(text), FoldText(pat), i)
    THEN rep \o SubFrom(text, pat, rep, i + Len(pat))
    ELSE <<text[i]>> \o SubFrom(text, pat, rep, i + 1)

\* re.sub(re.escape(pat), rep, text, flags=re.IGNORECASE), pat not empty
re_sub_ignorecase(text, pat, rep) == SubFrom(text, pat, rep, 1)

RECURSIVE apply_post_translation(_, _, _)
apply_post_translation(entries, text, placeholders) ==
    IF placeholders = <<>> THEN text
    ELSE LET p == Head(placeholders)
             e == get_entry(entries, p.original)
         IN apply_post_translation(
                entries,
                re_sub_ignorecase(text, p.placeholder,
                                  IF e # 0 THEN entries[e].target ELSE p.original),
                Tail(placeholders))

(***************************************************************************)
(* PostProcessor.process (src/post_processor.py), for enabled literal      *)
(* rules.                                                                  *)
(***************************************************************************)
RECURSIVE process(_, _)
process(rulelist, text) ==
    IF rulelist = <<>> THEN text
    ELSE process(Tail(rulelist), str_replace(text, Head(rulelist).pattern, Head(rulelist).replacement))

(***************************************************************************)
(* process_batch for one text, with a backend that echoes its input.       *)
(***************************************************************************)
\* glossary pre-processing, lines 257-265
UnitGlossaryPre ==
    /\ unit.stage = "masked"
    /\ IF Len(glossary) > 0
       THEN unit' = [unit EXCEPT !.stage = "sent",
                                 !.before = unit.text,
                                 !.text = apply_pre_translation(glossary, unit.text).text,
                                 !.placeholders = apply_pre_translation(glossary, unit.text).placeholders]
       ELSE unit' = [unit EXCEPT !.stage = "sent", !.before = unit.text]
    /\ UNCHANGED <<now, envVars, endpointVars, mgrVars, call, calls, sent, diskVars, runVars, glossary, _source_index, rules>>

\* the backend returns its input, line 267
UnitEcho ==
    /\ unit.stage = "sent"
    /\ unit' = [unit EXCEPT !.stage = "translated", !.before = unit.text]
    /\ UNCHANGED <<now, envVars, endpointVars, mgrVars, call, calls, sent, diskVars, runVars, glossary, _source_index, rules>>

\* every backend call raised for the text alone: the wrapper returns m[0][0],
\* the source string, lines 239-242
UnitFail ==
    /\ unit.stage = "sent"
    /\ unit' = [unit EXCEPT !.stage = "failed", !.before = unit.text, !.text = unit.original]
    /\ UNCHANGED <<now, envVars, endpointVars, mgrVars, call, calls, sent, diskVars, runVars, glossary, _source_index, rules>>

\* glossary post-processing, post-processor, unmask_text and strip, lines 269-279
UnitFinish ==
    /\ unit.stage \in {"translated", "failed"}
    /\ unit' = [unit EXCEPT
                  !.stage = IF unit.stage = "failed" THEN "kept" ELSE "done",
                  !.before = unit.text,
                  !.text = strip(unmask_text(
                               process(rules, apply_post_translation(glossary, unit.text,
                                                                     unit.placeholders)),
                               unit.tokens))]
    /\ UNCHANGED <<now, envVars, endpointVars, mgrVars, call, calls, sent, diskVars, runVars, glossary, _source_index, rules>>

(***************************************************************************)
(* SpecGlossary: a text through process_batch with a one-entry glossary.   *)
(***************************************************************************)
TermChars == {"a", "b"}
MaxTerm == MaxLen \div 2
Terms == TextsOver(TermChars, MaxTerm) \ {<<>>}

InitGlossary ==
    InitText({<<[source |-> S, target |-> T, case_sensitive |-> TRUE]>> : S \in Terms, T \in Terms},
             {<<>>},
             TextsOver(TermChars \cup {"[", "]"}, MaxLen))

NextGlossary == UnitMask \/ UnitGlossaryPre \/ UnitEcho \/ UnitFinish

SpecGlossary == InitGlossary /\ [][NextGlossary]_vars

\* C16: with an echoing backend and a glossary entry S -> T where T does not
\* contain S, the output for a text that contains S contains T and does not
\* contain S.
C16_GlossaryEnforced ==
    (/\ unit.stage = "done"
     /\ Len(glossary) = 1
     /\ ~Contains(glossary[1].target, glossary[1].source)
     /\ Contains(unit.original, glossary[1].source)) =>
        /\ Contains(unit.text, glossary[1].target)
        /\ ~Contains(unit.text, glossary[1].source)

(***************************************************************************)
(* SpecPost: PostProcessor.process applied to a text, and again to its     *)
(* result.                                                                 *)
(***************************************************************************)
\* result = self.post_processor.process(text)
UnitProcess ==
    /\ unit.stage \in {"new", "processed"}
    /\ unit' = [unit EXCEPT !.stage = IF unit.stage = "new" THEN "processed" ELSE "reprocessed",
                            !.before = unit.text,
                            !.text = process(rules, unit.text)]
    /\ UNCHANGED <<now, envVars, endpointVars, mgrVars, call, calls, sent, diskVars, runVars, glossary, _source_index, rules>>

Patterns == TextsOver(TermChars, MaxTerm)

Rules == [pattern : Patterns, replacement : Patterns]

InitPost ==
    InitText({<<>>}, {<<r>> : r \in Rules} \cup {<<r, q>> : r \in Rules, q \in Rules},
             TextsOver(TermChars, MaxLen))

NextPost == UnitProcess

SpecPost == InitPost /\ [][NextPost]_vars

\* C17: when no rule's replacement is matched by that rule's own pattern,
\* processing the result of process again leaves it unchanged.
C17_ProcessIdempotent ==
    (/\ unit.stage = "reprocessed"
     /\ \A k \in 1..Len(rules) : ~Contains(rules[k].replacement, rules[k].pattern)) =>
        unit.text = unit.before

\* C18: a run that finds the stop signal set when dispatch has ended finishes
\* without calling write_translations, and the cache file then holds every
\* result that was merged.
C18_StopSkipsWriteBack ==
    (pc = "done" /\ stop) =>
        /\ hist.writes = 0
        /\ safe_load_json(target) = cache

\* a run stopped after some batches were merged and saved, others never sent
C18_Witness ==
    /\ pc = "done" /\ stop
    /\ hist.saves = 1
    /\ DOMAIN cache \notin {{}, Units}
    /\ safe_load_json(target) = cache

\* C19: once the stop signal is set, a batch whose processing has not begun
\* does not begin translating and makes no backend call, on the sequential
\* and on the worker-pool path alike; batches in translation go on.
C19_NoNewBatchAfterStop ==
    [][\A t \in Threads :
          (stop /\ job[t].phase # "translate") =>
              (job'[t].phase # "translate" /\ call'[t].phase = "none")]_vars

\* with two workers: a batch was handed to a pool thread, the stop came before
\* its processing began, and it ended with none of its units sent to a backend
\* while the other batch was translated
C19_Witness ==
    /\ config.workers = 2
    /\ stop /\ pc = "done"
    /\ sent # {}
    /\ \E b \in 1..Len(batches) :
          /\ futures[b].state = "taken"
          /\ \A k \in 1..Len(batches[b]) : batches[b][k] \notin sent

\* C20: the results of a batch whose translation ended after the stop signal
\* was set are not merged into the cache.
C20_LateResultsNotMerged == \A u \in hist.late : u \notin DOMAIN cache

(***************************************************************************)
(* SpecFault: one Translator.run in an environment that fails: the engine  *)
(* may reject the game root, extraction may raise, and any step of a cache *)
(* save may raise.  The worker-pool configuration has more batches than    *)
(* workers.                                                                *)
(***************************************************************************)
\* one unit per batch, for a pool of two workers
WideConfigs ==
    {[batch_size |-> 1, max_chars |-> TotalLen, workers |-> 2]}

InitFault ==
    \/ InitWith({Profile("poison", "poison")}, {{Chain[1]}}, SeqConfigs, {{}, {2}},
                {NoFile, OldCache}, {1})
    \/ InitWith({Profile("ok", "ok")}, {{Chain[1]}}, WideConfigs, {{}},
                {NoFile}, {1})

NextFault ==
    \/ RunStep
    \/ StartFail
    \/ SaveFail

SpecFault == InitFault /\ [][NextFault]_vars

\* C21: when a cache flush fails the run is not aborted: it goes on with the
\* merged results in memory, to be written by the next successful flush.
C21_FlushFailureTolerated == pc # "save_failed"

\* C28: if the engine rejects the game root or extraction raises, run() has
\* raised with no backend call made, no cache file or temporary file written
\* and no write-back done.
C28_FailsBeforeAnyEffect ==
    pc \in {"invalid_root", "extract_failed"} =>
        /\ sent = {}
        /\ \A t \in Threads : call[t].phase = "none" /\ job[t].phase = "idle"
        /\ tmpfile = NoFile
        /\ hist.saves = 0
        /\ hist.writes = 0
        /\ cache = EmptyDict

\* extraction raised in a project that has a cache file from an earlier run;
\* the file is as it was
C28_Witness ==
    /\ pc = "extract_failed"
    /\ hist.runs = 1
    /\ target = OldCache
    /\ sent = {}

\* the units of batch b
BatchUnits(b) == {batches[b][k] : k \in 1..Len(batches[b])}

\* C24: during a run the value of `done` handed to the progress callback never
\* decreases, and it grows by exactly one with each unit committed to the
\* cache (and only then).
C24_DoneCountsCommits ==
    [][pc # "idle" =>
          /\ done' >= done
          /\ done' - done = Cardinality(DOMAIN cache' \ DOMAIN cache)
          /\ done' - done <= 1]_vars

\* a run that started from a cache file counted from its size up to the
\* number of extracted strings
C24_Witness ==
    /\ pc = "done"
    /\ hist.startKeys # {}
    /\ done = NumUnits
    /\ DOMAIN cache = Units

\* C25: merges and flushes are serialized: the in-memory cache is ahead of
\* the cache file by the results of at most one batch, the results waiting
\* to be merged are those of one batch, and the cache file always parses to
\* a snapshot that holds each batch's results entirely or not at all.
C25_MergesSerialized ==
    LET keys == DOMAIN safe_load_json(target)
    IN /\ target.exists => Parsable(target.data)
       /\ \A b \in 1..Len(batches) :
             BatchUnits(b) \subseteq keys \/ BatchUnits(b) \cap keys = {}
       /\ batches # <<>> =>
             \E b \in 1..Len(batches) :
                 /\ (DOMAIN cache) \ keys \subseteq BatchUnits(b)
                 /\ {result[k][1] : k \in 1..Len(result)} \subseteq BatchUnits(b)

\* with two workers: while the results of one batch are being written, the
\* other batch has completed and waits for its turn
C25_Witness ==
    /\ config.workers = 2
    /\ pc = "save_write"
    /\ tmpfile.data # <<>>
    /\ \E b \in 1..Len(batches) : futures[b].state = "done" /\ futures[b].result # <<>>

\* the batches in process_batch
InProcess == {t \in Threads : job[t].phase # "idle"}

\* C26: at most `workers` batches are being processed at any moment; with
\* workers = 1 a batch is not started until the results of every batch
\* before it have been merged and flushed.
C26_BoundedWorkers ==
    /\ Cardinality(InProcess) <= config.workers
    /\ Cardinality({b \in 1..Len(futures) : futures[b].state = "running"}) <= config.workers
    /\ config.workers = 1 =>
          \A t \in InProcess :
              /\ t = 0
              /\ \A b \in 1..(job[t].batch - 1) :
                    /\ BatchUnits(b) \subseteq DOMAIN cache
                    /\ BatchUnits(b) \subseteq DOMAIN safe_load_json(target)

\* two batches are being translated by the two workers while a third one
\* waits in the executor's queue
C26_Witness ==
    /\ config.workers = 2
    /\ Cardinality({t \in Threads : job[t].phase = "translate"}) = 2
    /\ Queued # {}

\* C27: during a run the cache is append-only: no key leaves it and the value
\* of a key it holds, from the load or from an earlier merge, never changes.
C27_CacheAppendOnly ==
    [][pc # "idle" =>
          \A u \in DOMAIN cache : u \in DOMAIN cache' /\ cache'[u] = cache[u]]_vars

\* a run that loaded a cached unit has merged the others around it
C27_Witness ==
    /\ pc = "done"
    /\ hist.startKeys = {2}
    /\ DOMAIN cache = Units
    /\ cache[2] = Post(Tr(Chain[1], 2))
    /\ poison = {2}

\* C23: a backend answer whose length differs from the number of input texts
\* counts as a failed call of that backend: no call of translate_with_fallback
\* returns such an answer, and a backend whose call has ended with success
\* recorded gave one translation per text.
C23_MismatchIsFailure ==
    \A t \in Threads :
        (call[t].trace # <<>> /\ LastEvent(t).ev = "ok") =>
            Len(call[t].result) = Len(call[t].texts)

(***************************************************************************)
(* SpecFallback: a text through process_batch when every backend call for  *)
(* it fails at batch size 1.                                               *)
(***************************************************************************)
SourceChars == {"a", " ", "[", "]"}

InitFallback ==
    InitText({<<>>, <<[source |-> <<"a">>, target |-> <<"b">>, case_sensitive |-> TRUE]>>},
             {<<>>, <<[pattern |-> <<"a">>, replacement |-> <<"b">>]>>},
             TextsOver(SourceChars, MaxLen))

NextFallback == UnitMask \/ UnitGlossaryPre \/ UnitFail \/ UnitFinish

SpecFallback == InitFallback /\ [][NextFallback]_vars

\* C22: for a unit whose translation fails at batch size 1, the value
\* committed to the cache is the unit's source text, unchanged.
C22_FallbackKeepsSource == unit.stage = "kept" => unit.text = unit.original

(***************************************************************************)
(* SpecEndpoint: callers use the caches of three endpoint wrappers; the    *)
(* process may be restarted, which keeps the SQLite files only.            *)
(***************************************************************************)
InitEndpoint ==
    InitWith({Profile("ok", "ok")}, {Backends}, {[batch_size |-> 1, max_chars |-> 1, workers |-> 1]},
             {{}}, {NoFile}, {1})

Probe(op, e, text, src, tgt, value, long_read) ==
    [op |-> op, endpoint |-> e, text |-> text, src |-> src, tgt |-> tgt,
     value |-> value, long_read |-> long_read]

\* endpoint.init_long_cache(cache_dir, translator_type), lines 187-208
EndpointInitLongCache(e) ==
    /\ calls < MaxOps
    /\ _long_cache_db[e] = None
    /\ _long_cache_db' = [_long_cache_db EXCEPT ![e] = DbPath(e)]
    /\ sqlite' = IF DbPath(e) \in DOMAIN sqlite THEN sqlite ELSE Put(sqlite, DbPath(e), EmptyDict)
    /\ probe' = Probe("init_long_cache", e, None, None, None, None, FALSE)
    /\ calls' = calls + 1
    /\ UNCHANGED <<now, envVars, textVars, mgrVars, call, sent, diskVars, runVars, _memory_cache>>

\* endpoint._set_cache(endpoint._get_cache_key(src, tgt), text, translation)
EndpointSetCache(e) ==
    /\ calls < MaxOps
    /\ \E text \in SourceTexts, translation \in Translations, src \in SourceLangs, tgt \in TargetLangs :
          /\ _memory_cache' = _set_cache(_memory_cache, _get_cache_key(e, src, tgt), text, translation)
          /\ probe' = Probe("_set_cache", e, text, src, tgt, translation, FALSE)
    /\ calls' = calls + 1
    /\ UNCHANGED <<now, envVars, textVars, mgrVars, call, sent, diskVars, runVars,
                   _long_cache_db, sqlite>>

\* endpoint._get_from_cache(endpoint._get_cache_key(src, tgt), text)
EndpointGetFromCache(e) ==
    /\ calls < MaxOps
    /\ \E text \in SourceTexts, src \in SourceLangs, tgt \in TargetLangs :
          LET got == _get_from_cache(_memory_cache, _get_cache_key(e, src, tgt), text)
          IN /\ _memory_cache' = got.memory
             /\ probe' = Probe("_get_from_cache", e, text, src, tgt, got.value, FALSE)
    /\ calls' = calls + 1
    /\ UNCHANGED <<now, envVars, textVars, mgrVars, call, sent, diskVars, runVars,
                   _long_cache_db, sqlite>>

\* endpoint.set_cached_dual(text, translation, src, tgt), lines 258-267
EndpointSetCachedDual(e) ==
    /\ calls < MaxOps
    /\ \E text \in SourceTexts, translation \in Translations, src \in SourceLangs, tgt \in TargetLangs :
          /\ _memory_cache' = _set_cache(_memory_cache, _get_cache_key(e, src, tgt), text, translation)
          /\ sqlite' = set_to_long_cache(e, text, translation, src, tgt)
          /\ probe' = Probe("set_cached_dual", e, text, src, tgt, translation, FALSE)
    /\ calls' = calls + 1
    /\ UNCHANGED <<now, envVars, textVars, mgrVars, call, sent, diskVars, runVars, _long_cache_db>>

\* endpoint.get_cached_dual(text, src, tgt), lines 238-256
EndpointGetCachedDual(e) ==
    /\ calls < MaxOps
    /\ \E text \in SourceTexts, src \in SourceLangs, tgt \in TargetLangs :
          LET got == get_cached_dual(e, text, src, tgt)
          IN /\ _memory_cache' = got.memory
             /\ probe' = Probe("get_cached_dual", e, text, src, tgt, got.value, got.long_read)
    /\ calls' = calls + 1
    /\ UNCHANGED <<now, envVars, textVars, mgrVars, call, sent, diskVars, runVars,
                   _long_cache_db, sqlite>>

\* endpoint.clear_cache(), lines 352-355
EndpointClearCache(e) ==
    /\ calls < MaxOps
    /\ _memory_cache # EmptyDict
    /\ _memory_cache' = EmptyDict
    /\ probe' = Probe("clear_cache", e, None, None, None, None, FALSE)
    /\ calls' = calls + 1
    /\ UNCHANGED <<now, envVars, textVars, mgrVars, call, sent, diskVars, runVars,
                   _long_cache_db, sqlite>>

\* the process ends and a new one starts: the class attribute and the
\* connections are new, the SQLite files are those on disk
ProcessRestart ==
    /\ calls < MaxOps
    /\ sqlite # EmptyDict
    /\ _memory_cache' = EmptyDict
    /\ _long_cache_db' = [e \in Endpoints |-> None]
    /\ probe' = NoProbe
    /\ calls' = calls + 1
    /\ UNCHANGED <<now, envVars, textVars, mgrVars, call, sent, diskVars, runVars, sqlite>>

NextEndpoint ==
    \/ \E e \in Endpoints : EndpointInitLongCache(e)
    \/ \E e \in Endpoints : EndpointSetCache(e)
    \/ \E e \in Endpoints : EndpointGetFromCache(e)
    \/ \E e \in Endpoints : EndpointSetCachedDual(e)
    \/ \E e \in Endpoints : EndpointGetCachedDual(e)
    \/ \E e \in Endpoints : EndpointClearCache(e)
    \/ ProcessRestart

SpecEndpoint == InitEndpoint /\ [][NextEndpoint]_vars

\* what a lookup in the memory cache made through endpoint e finds
Seen(e) ==
    [k \in SourceLangs \X TargetLangs \X SourceTexts |->
        IF _get_cache_key(e, k[1], k[2]) \in DOMAIN _memory_cache
        THEN Get(_memory_cache[_get_cache_key(e, k[1], k[2])], k[3]) ELSE None]

\* C29: each endpoint instance owns its memory cache: storing a translation
\* through one instance leaves what every other instance finds in its memory
\* cache unchanged.
C29_OwnMemoryCache ==
    [][\A e \in Endpoints :
          (/\ calls' # calls
           /\ probe'.op \in {"_set_cache", "set_cached_dual"}
           /\ probe'.endpoint = e) =>
              \A o \in Endpoints \ {e} : Seen(o)' = Seen(o)]_vars

\* C30: get_cached_dual reads the memory cache first and the SQLite cache
\* only when the memory cache has no value for the key; a value found in the
\* SQLite cache is returned and is afterwards the memory cache's value for
\* the same (backend, srcLang, tgtLang, text) key.
C30_MemoryFirstBackfill ==
    [][\A e \in Endpoints, k \in SourceLangs \X TargetLangs \X SourceTexts :
          (/\ calls' # calls
           /\ probe'.op = "get_cached_dual"
           /\ probe'.endpoint = e
           /\ <<probe'.src, probe'.tgt, probe'.text>> = k) =>
              LET in_memory == Seen(e)[k]
                  in_sqlite == get_from_long_cache(e, k[3], k[1], k[2])
              IN IF in_memory # None
                 THEN /\ probe'.value = in_memory
                      /\ ~probe'.long_read
                      /\ Seen(e)'[k] = in_memory
                 ELSE /\ probe'.long_read
                      /\ probe'.value = in_sqlite
                      /\ Seen(e)'[k] = in_sqlite]_vars

\* on a memory miss a value was found in the SQLite cache and returned, and
\* it is now in the memory cache under the same key
C30_Witness ==
    /\ probe.op = "get_cached_dual"
    /\ probe.long_read
    /\ probe.value \in Translations
    /\ Seen(probe.endpoint)[<<probe.src, probe.tgt, probe.text>>] = probe.value

(***************************************************************************)
(* TokenPool: the token handed out when none is eligible, and the counters *)
(***************************************************************************)
\* seconds until the cooldown of token k expires; 0 when it has expired
Remaining(pool, k, t) == IF pool.cooldown_until[k] > t THEN pool.cooldown_until[k] - t ELSE 0

\* C31: when no token of a non-empty pool is eligible, get_next_token returns
\* the token whose cooldown expires soonest (no token has less cooldown left
\* than the one returned); it returns none only when the pool is empty.
C31_SoonestCooldown ==
    \A a \in Backends :
        LET pool == token_pools[a]
            got == get_next_token(pool, now).token
        IN /\ got = NoToken <=> pool.tokens = <<>>
           /\ (pool.tokens # <<>> /\ Eligible(pool, now) = {}) =>
                 /\ got \in 1..Len(pool.tokens)
                 /\ \A k \in 1..Len(pool.tokens) :
                       Remaining(pool, got, now) <= Remaining(pool, k, now)

\* every token is cooling down, the first one for longer than the second,
\* and get_next_token has handed out the second
C31_Witness ==
    LET pool == token_pools[Chain[1]]
    IN /\ Len(pool.tokens) = 2
       /\ call[1].trace = <<PoolEvent("get_next_token", 2)>>
       /\ pool.cooldown_until[2] > now
       /\ pool.cooldown_until[1] > pool.cooldown_until[2]

\* max(0, x - 1)
Decayed(x) == IF x = 0 THEN 0 ELSE x - 1

TripleConfigs ==
    {[batch_size |-> (NumUnits + 1) \div 2, max_chars |-> TotalLen, workers |-> 3]}

InitLive ==
    \/ InitWith({Profile("poison", "poison")}, {{Chain[1]}}, SeqConfigs, {{}, {2}, Units},
                {NoFile}, {1})
    \/ InitWith({Profile("poison", "poison")}, {{Chain[1]}}, ParConfigs \cup TripleConfigs,
                {{}, {2}}, {NoFile}, {1})

SpecLive == InitLive /\ [][NextRun]_vars /\ WF_vars(RunStep)

\* the sub-batches a process_batch call still has to translate, in order
Remainder(j) == Concat(j.stack)

\* C33: the processing of a batch of n units makes at most 2n - 1 calls to
\* the API manager, every sub-batch made by the bisection is a non-empty
\* contiguous part of the batch (the parts still to translate follow the
\* results obtained so far), and run() reaches its end, whatever the number
\* of workers.
C33_BisectionTerminates ==
    /\ [](\A t \in Threads :
            job[t].phase \in {"translate", "finished"} /\ job[t].batch > 0 =>
               LET b == batches[job[t].batch]
               IN /\ job[t].calls <= 2 * Len(b) - 1
                  /\ \A k \in 1..Len(job[t].stack) : job[t].stack[k] # <<>>
                  /\ job[t].phase = "translate" =>
                        Remainder(job[t]) = SubSeq(b, Len(job[t].out) + 1, Len(b)))
    /\ <>(pc = "done")

\* a batch of NumUnits units, all of which the backend rejects, took
\* 2 * NumUnits - 1 calls
C33_Witness ==
    \E t \in Threads :
        /\ job[t].phase = "finished"
        /\ Len(batches[job[t].batch]) = NumUnits
        /\ job[t].calls = 2 * NumUnits - 1
        /\ Len(job[t].result) = NumUnits

\* C34: the wrapper returns exactly one result per unit of the batch, result
\* i belonging to unit i, whatever mix of successes, failures, length
\* mismatches and bisections occurred; so every value committed to the cache
\* is stored under the source string of the unit it was made for.
C34_ResultsAligned ==
    /\ \A t \in Threads :
          (job[t].phase = "finished" /\ job[t].calls > 0) =>
             LET b == batches[job[t].batch]
             IN /\ Len(job[t].out) = Len(b)
                /\ Len(job[t].result) = Len(b)
                /\ \A i \in 1..Len(b) :
                      /\ job[t].out[i].unit = b[i]
                      /\ job[t].result[i][1] = b[i]
                      /\ job[t].result[i][2].unit = b[i]
    /\ \A u \in DOMAIN cache : cache[u].unit = u

\* a batch went through a bisection: one of its units was translated by the
\* backend, another one kept its source text
C34_Witness ==
    \E t \in Threads :
        /\ job[t].phase = "finished"
        /\ behaviour[Chain[1]] = "any"
        /\ job[t].calls >= 3
        /\ \E i, k \in 1..Len(job[t].out) :
              /\ i < k
              /\ job[t].out[i].from = "source"
              /\ job[t].out[k].from = Chain[1]

\* C35: a unit whose translation failed is committed to the persisted cache
\* with its fallback text like any other result: when a run has ended every
\* unit the backend rejects is in the cache file with its source text, and a
\* run that loaded such an entry never sends the unit to a backend nor puts
\* it in a batch.
C35_FailedUnitsCached ==
    /\ pc = "done" =>
          \A u \in poison :
              /\ u \in DOMAIN safe_load_json(target)
              /\ safe_load_json(target)[u].from = "source"
    /\ \A u \in hist.startKeys :
          cache[u].from = "source" =>
              /\ u \notin sent
              /\ \A k \in 1..Len(pending) : pending[k] # u

\* a run started after a kill loaded a unit cached with its source text and
\* has sent other units to the backend
C35_Witness ==
    /\ hist.runs = 2
    /\ \E u \in hist.startKeys : cache[u].from = "source"
    /\ sent # {}
    /\ pc = "done"

(***************************************************************************)
(* SpecProgress: Translator.run on a project whose cache file may hold a   *)
(* string that the engine no longer extracts.                              *)
(***************************************************************************)
\* a string of an earlier version of the game, not among the extracted ones
StaleUnit == 0

\* cache files that hold the stale string, alone or next to an extracted one
StaleCaches ==
    {[exists |-> TRUE, data |-> Dump([u \in S |-> Post(Tr(Chain[1], u))])] :
        S \in {{StaleUnit}, {StaleUnit, 2}}}

InitProgress ==
    \/ InitWith({Profile("poison", "poison")}, {{Chain[1]}}, SeqConfigs, {{}, {2}},
                {NoFile, OldCache} \cup StaleCaches, {1})
    \/ InitWith({Profile("poison", "poison")}, {{Chain[1]}}, ParConfigs, {{}},
                {NoFile} \cup StaleCaches, {1})

SpecProgress == InitProgress /\ [][NextRun]_vars

\* len(unique_strings), line 217
total == Len(Strings)

\* C36: every progress report of a run has done <= total, and a run that
\* completes without a stop request ends with done = total, whatever the
\* cache file held when the run started.
C36_DoneWithinTotal ==
    pc # "idle" =>
        /\ done <= total
        /\ (pc = "done" /\ ~stop) => done = total

\* C37: for every backend, however the translate_with_fallback calls of the
\* threads interleave, total_requests = successful_requests + failed_requests,
\* and consecutive_failures is the number of failures recorded since the last
\* recorded success: a recorded failure adds one to it, a recorded success
\* sets it to zero, and nothing else changes it; no recording is lost.
C37_StatsConsistent ==
    [][\A a \in Backends :
          LET s == stats[a]
              after == stats'[a]
              failures == after.failed_requests - s.failed_requests
              successes == after.successful_requests - s.successful_requests
              finished == {t \in Threads : call[t].phase = "in_flight" /\ call'[t].phase # "in_flight"
                                               /\ call[t].avail[call[t].i] = a}
          IN /\ s.total_requests = s.successful_requests + s.failed_requests
             /\ after.total_requests = after.successful_requests + after.failed_requests
             /\ failures \in {0, 1} /\ successes \in {0, 1}
             /\ failures + successes = Cardinality(finished)
             /\ failures = 1 => after.consecutive_failures = s.consecutive_failures + 1
             /\ successes = 1 => after.consecutive_failures = 0
             /\ failures + successes = 0 => after.consecutive_failures = s.consecutive_failures]_vars

\* two pool threads use the backend: it has failed twice, with a success
\* recorded between the two failures, while the other thread's call is on
\* its way
C37_Witness ==
    /\ config.workers = 2
    /\ stats[Chain[1]].failed_requests = 2
    /\ stats[Chain[1]].successful_requests >= 1
    /\ stats[Chain[1]].consecutive_failures = 1
    /\ \E t \in Threads : call[t].phase = "in_flight"

\* the threads whose call invokes backend a in this step
Invoking(a) ==
    {t \in Threads : /\ call[t].phase = "wait"
                     /\ call'[t].phase = "in_flight"
                     /\ call[t].avail[call[t].i] = a}

\* the threads whose call is at the suspension test of backend a
Reaching(a) ==
    {t \in Threads : /\ call[t].phase = "loop"
                     /\ call[t].i <= Len(call[t].avail)
                     /\ call[t].avail[call[t].i] = a}

\* C38: a suspended backend is not invoked and its last-error timestamp does
\* not advance while it is suspended; once failure_cooldown has elapsed
\* since its last recorded failure the next call that reaches it goes on to
\* invoke it, and a success then resets its consecutive-failure count.
C38_SuspensionEnds ==
    [][\A a \in Backends :
          /\ Suspended(stats[a], now) =>
                /\ Invoking(a) = {}
                /\ stats'[a].last_error_time = stats[a].last_error_time
          /\ now - stats[a].last_error_time >= failure_cooldown =>
                \A t \in Reaching(a) :
                    call'[t] # call[t] => call'[t].phase = "rate"
          /\ stats'[a].successful_requests > stats[a].successful_requests =>
                stats'[a].consecutive_failures = 0]_vars

(***************************************************************************)
(* SpecIndex: a caller adds entries to a GlossaryManager and removes them. *)
(***************************************************************************)
GlossarySources == {<<"a">>, <<"A">>}

GlossaryEntries ==
    {[source |-> s, target |-> t, case_sensitive |-> c] :
        s \in GlossarySources, t \in {<<"x">>, <<"y">>}, c \in BOOLEAN}

InitIndex == InitText({<<>>}, {<<>>}, {<<>>})

\* the last operation a caller made on the glossary
GlossaryEvent(op, source) == [api |-> "glossary", ev |-> op, source |-> source]

\* glossary.add_entry(entry)
GlossaryAddEntry ==
    /\ calls < MaxOps
    /\ \E entry \in GlossaryEntries :
          LET g == add_entry([entries |-> glossary, index |-> _source_index], entry)
          IN /\ glossary' = g.entries
             /\ _source_index' = g.index
             /\ call' = [call EXCEPT ![1].trace = <<GlossaryEvent("add_entry", entry.source)>>]
    /\ calls' = calls + 1
    /\ UNCHANGED <<now, envVars, endpointVars, mgrVars, sent, diskVars, runVars, rules, unit>>

\* glossary.remove_entry(source)
GlossaryRemoveEntry ==
    /\ calls < MaxOps
    /\ \E source \in GlossarySources :
          LET g == remove_entry([entries |-> glossary, index |-> _source_index], source)
          IN /\ glossary' = g.entries
             /\ _source_index' = g.index
             /\ call' = [call EXCEPT ![1].trace = <<GlossaryEvent("remove_entry", source)>>]
    /\ calls' = calls + 1
    /\ UNCHANGED <<now, envVars, endpointVars, mgrVars, sent, diskVars, runVars, rules, unit>>

NextIndex == GlossaryAddEntry \/ GlossaryRemoveEntry

SpecIndex == InitIndex /\ [][NextIndex]_vars

\* C39: after any sequence of add_entry and remove_entry calls the entry
\* list and the source index agree: every entry of the list is returned by
\* get_entry for its source, and after remove_entry(s) no entry with source
\* s remains in the list or is returned by get_entry(s).
C39_IndexAgrees ==
    [][/\ \A i \in 1..Len(glossary') :
             GlossaryManager_get_entry(_source_index', glossary'[i].source) = glossary'[i]
       /\ \A s \in GlossarySources :
             call'[1].trace = <<GlossaryEvent("remove_entry", s)>> =>
                /\ \A i \in 1..Len(glossary') : glossary'[i].source # s
                /\ GlossaryManager_get_entry(_source_index', s) = None]_vars

====
